---- MODULE Spec2Model ----
(***************************************************************************)
(* A model of the process hosting core of src/bot.py: target identifiers   *)
(* and the paths derived from them, the ownership store (ownership.json),  *)
(* the registry of launched processes (running_processes), the operating   *)
(* system's processes, and the handlers that start, stop, query and edit   *)
(* a hosted target.                                                        *)
(*                                                                         *)
(* Strings are sequences of tokens.  A token stands for a run of           *)
(* characters that the code never looks inside: "/", "|", "." and "_" are  *)
(* the separators, "u" the user-file prefix, "0".."2" digits, "py", "js",  *)
(* "sh", "txt", "json" extensions, the rest names.                         *)
(***************************************************************************)
EXTENDS Integers, Sequences, FiniteSets, TLC

VARIABLES
    ADMIN_ID,           \* bot.py:36, the operator's user id, read from the environment
    ownership,          \* the content of ownership.json: target id -> record
    running_processes,  \* bot.py:50, target id -> [process, started_at]
    procs,              \* the operating system's process table: pid -> [tid, st]
    fs,                 \* the file system: absolute normalised path -> content
    now,                \* the clock read by time.time()
    user_data,          \* each chat user's conversation: context.user_data and its state
    last,               \* the last operation performed and what it answered
    ctx,                \* the concurrent contexts' positions in Start/Stop
    tmp,                \* the content of ownership.json.tmp (bot.py:84)
    writer,             \* each thread's position inside a mutation of the store
    history             \* target id -> "start": a caller's Start was issued or has ended;
                        \* "stopping": a Stop is under way and no Start was issued
                        \* since it began; "stop": that Stop has ended

vars == <<ADMIN_ID, ownership, running_processes, procs, fs, now, user_data, last, ctx,
          tmp, writer, history>>

(***************************************************************************)
(* Bounds of the model.                                                    *)
(***************************************************************************)
MaxIdLen == 4      \* longest identifier drawn for the pure path functions
MaxProcs == 2      \* number of processes the operating system may spawn
MaxKey == 2        \* the keys secrets.token_urlsafe gives are 1..MaxKey
MaxTime == 1       \* the clock runs from 0 to MaxTime
MaxEnvLines == 3   \* most lines of an env file that build_env is given
MaxQuoted == 5     \* longest value of quote characters and a letter in an env file
MaxLog == 2        \* most lines the processes write to one log file

(***************************************************************************)
(* Python's str operations, on sequences of tokens.                        *)
(***************************************************************************)
Digits == {"0", "1", "2"}

StartsWith(s, pre) == Len(s) >= Len(pre) /\ SubSeq(s, 1, Len(pre)) = pre

EndsWith(s, suf) ==
    Len(s) >= Len(suf) /\ SubSeq(s, Len(s) - Len(suf) + 1, Len(s)) = suf

Count(s, c) == Cardinality({i \in 1..Len(s) : s[i] = c})

Has(s, c) == \E i \in 1..Len(s) : s[i] = c

\* sub in s, for a substring sub
Contains(s, sub) ==
    \E i \in 1..(Len(s) - Len(sub) + 1) : SubSeq(s, i, i + Len(sub) - 1) = sub

\* the index of the first c in s, or 0
Find(s, c) ==
    IF Has(s, c) THEN CHOOSE i \in 1..Len(s) : s[i] = c /\ \A j \in 1..(i - 1) : s[j] # c
    ELSE 0

\* the index of the last c in s, or 0
RFind(s, c) ==
    IF Has(s, c) THEN CHOOSE i \in 1..Len(s) : s[i] = c /\ \A j \in (i + 1)..Len(s) : s[j] # c
    ELSE 0

\* str.isdigit(): non-empty and digits only
IsDigit(s) == s # <<>> /\ \A i \in 1..Len(s) : s[i] \in Digits

\* s.split(c, 1) of a string that holds c: <<before, after>>
SplitFirst(s, c) == <<SubSeq(s, 1, Find(s, c) - 1), SubSeq(s, Find(s, c) + 1, Len(s))>>

\* s.split(c): the sequence of the pieces between the c's
RECURSIVE Split(_, _)
Split(s, c) ==
    IF ~Has(s, c) THEN <<s>>
    ELSE <<SubSeq(s, 1, Find(s, c) - 1)>> \o Split(SubSeq(s, Find(s, c) + 1, Len(s)), c)

\* c.join(pieces)
RECURSIVE JoinWith(_, _)
JoinWith(pieces, c) ==
    IF pieces = <<>> THEN <<>>
    ELSE IF Len(pieces) = 1 THEN pieces[1]
    ELSE pieces[1] \o <<c>> \o JoinWith(Tail(pieces), c)

\* s.replace(c, d) for single tokens
Replace(s, c, d) == [i \in 1..Len(s) |-> IF s[i] = c THEN d ELSE s[i]]

\* s.strip(): leading and trailing blanks removed
RECURSIVE Strip(_)
Strip(s) ==
    IF s = <<>> THEN s
    ELSE IF Head(s) = " " THEN Strip(Tail(s))
    ELSE IF s[Len(s)] = " " THEN Strip(SubSeq(s, 1, Len(s) - 1))
    ELSE s

\* s.strip(c): every leading and every trailing c removed
RECURSIVE StripChars(_, _)
StripChars(s, c) ==
    IF s = <<>> THEN s
    ELSE IF Head(s) = c THEN StripChars(Tail(s), c)
    ELSE IF s[Len(s)] = c THEN StripChars(SubSeq(s, 1, Len(s) - 1), c)
    ELSE s

(***************************************************************************)
(* bot.py:53-65, the classification of a target identifier.                *)
(***************************************************************************)
is_user_file_id(tid) ==
    /\ StartsWith(tid, <<"u">>)
    /\ Has(tid, "|")
    /\ Count(tid, "|") = 1
    /\ IsDigit(Tail(SplitFirst(tid, "|")[1]))

\* is_repo_id asking only for a '|'
is_repo_id_any_bar(tid) == Has(tid, "|")

is_repo_id(tid) == Has(tid, "|") /\ ~is_user_file_id(tid)

(***************************************************************************)
(* posixpath: join, normpath, abspath, dirname.                            *)
(***************************************************************************)
UPLOAD_DIR == <<"scripts">>

\* os.getcwd(): the directory the service runs in
CWD == <<"/", "srv">>

\* os.path.join(a, b)
PathJoin(a, b) ==
    IF StartsWith(b, <<"/">>) THEN b
    ELSE IF a = <<>> \/ EndsWith(a, <<"/">>) THEN a \o b
    ELSE a \o <<"/">> \o b

\* the loop of posixpath.normpath over the components
RECURSIVE NormComps(_, _, _)
NormComps(comps, acc, rooted) ==
    IF comps = <<>> THEN acc
    ELSE LET c == Head(comps) IN
         IF c = <<>> \/ c = <<".">> THEN NormComps(Tail(comps), acc, rooted)
         ELSE IF \/ c # <<".", ".">>
                 \/ (~rooted /\ acc = <<>>)
                 \/ (acc # <<>> /\ acc[Len(acc)] = <<".", ".">>)
              THEN NormComps(Tail(comps), Append(acc, c), rooted)
         ELSE IF acc # <<>>
              THEN NormComps(Tail(comps), SubSeq(acc, 1, Len(acc) - 1), rooted)
         ELSE NormComps(Tail(comps), acc, rooted)

\* the number of leading slashes posixpath.normpath keeps: 0, 1 or 2
InitialSlashes(p) ==
    IF ~StartsWith(p, <<"/">>) THEN 0
    ELSE IF StartsWith(p, <<"/", "/">>) /\ ~StartsWith(p, <<"/", "/", "/">>) THEN 2
    ELSE 1

\* os.path.normpath(p)
NormPath(p) ==
    IF p = <<>> THEN <<".">>
    ELSE LET n == InitialSlashes(p)
             body == JoinWith(NormComps(Split(p, "/"), <<>>, n > 0), "/")
             full == (IF n = 2 THEN <<"/", "/">> ELSE IF n = 1 THEN <<"/">> ELSE <<>>) \o body
         IN  IF full = <<>> THEN <<".">> ELSE full

\* os.path.abspath(p)
AbsPath(p) == NormPath(IF StartsWith(p, <<"/">>) THEN p ELSE PathJoin(CWD, p))

\* s.rstrip("/")
RECURSIVE RStripSlash(_)
RStripSlash(s) ==
    IF s # <<>> /\ s[Len(s)] = "/" THEN RStripSlash(SubSeq(s, 1, Len(s) - 1)) ELSE s

\* os.path.dirname(p)
DirName(p) ==
    LET head == SubSeq(p, 1, RFind(p, "/"))
    IN  IF head # <<>> /\ \E j \in 1..Len(head) : head[j] # "/"
        THEN RStripSlash(head)
        ELSE head

(***************************************************************************)
(* bot.py:135-172, resolve_paths.                                          *)
(***************************************************************************)
resolve_paths(target_id) ==
    IF is_user_file_id(target_id)
    THEN LET uid == Tail(SplitFirst(target_id, "|")[1])
             filename == SplitFirst(target_id, "|")[2]
             work_dir == PathJoin(UPLOAD_DIR, uid)
         IN  [work_dir |-> work_dir,
              script_path |-> filename,
              env_path |-> PathJoin(work_dir, <<".", "env">>),
              req_path |-> PathJoin(work_dir, <<"requirements", ".", "txt">>),
              full_script_path |-> PathJoin(work_dir, filename)]
    ELSE IF is_repo_id(target_id)
    THEN LET repo == SplitFirst(target_id, "|")[1]
             file == SplitFirst(target_id, "|")[2]
             work_dir == PathJoin(UPLOAD_DIR, repo)
         IN  [work_dir |-> work_dir,
              script_path |-> file,
              env_path |-> PathJoin(work_dir, <<".", "env">>),
              req_path |-> PathJoin(work_dir, <<"requirements", ".", "txt">>),
              full_script_path |-> PathJoin(work_dir, file)]
    ELSE [work_dir |-> UPLOAD_DIR,
          script_path |-> target_id,
          env_path |-> PathJoin(UPLOAD_DIR, target_id \o <<".", "env">>),
          req_path |-> PathJoin(UPLOAD_DIR, target_id \o <<"_", "req", ".", "txt">>),
          full_script_path |-> PathJoin(UPLOAD_DIR, target_id)]

(***************************************************************************)
(* bot.py:175-178, within_dir.                                             *)
(***************************************************************************)
\* within_dir comparing the paths as given, without os.path.abspath
within_dir_no_abspath(base, p) == StartsWith(p, base \o <<"/">>) \/ p = base

within_dir(base, p) ==
    LET base_abs == AbsPath(base)
        p_abs == AbsPath(p)
    IN  StartsWith(p_abs, base_abs \o <<"/">>) \/ p_abs = base_abs

(***************************************************************************)
(* Python values.  None is a token sequence no string of the model equals. *)
(* A key is a natural number: 0 stands for both the empty string and None, *)
(* which the code tells apart nowhere (bot.py:439 tests "not real_key").    *)
(***************************************************************************)
None == <<"<None>">>

NoKey == 0

Keys == 1..MaxKey

(***************************************************************************)
(* bot.py:74-132, the ownership store.  The operators take the content of  *)
(* ownership.json and give the content after the call.                     *)
(***************************************************************************)
\* a file that does not parse as JSON: empty, cut short, or two writers' text
\* mixed.  It is kept as a map with a key no identifier equals.
Garbled == [t \in {<<"<garbled>">>} |-> 0]

\* no file at the path
NoFile == [t \in {<<"<absent>">>} |-> 0]

\* _read_json(OWNERSHIP_FILE, {}): the default for a file that does not parse
\* (bot.py:77-81).  A store never written is the empty map (bot.py:75-76).
load_ownership(file) == IF file = Garbled \/ file = NoFile THEN <<>> ELSE file

\* data[target_id] = record
Upsert(data, target_id, record) ==
    [t \in DOMAIN data \cup {target_id} |-> IF t = target_id THEN record ELSE data[t]]

\* del data[target_id]
Remove(data, target_id) == [t \in DOMAIN data \ {target_id} |-> data[t]]

save_ownership_record(file, target_id, record) ==
    Upsert(load_ownership(file), target_id, record)

delete_ownership(file, target_id) ==
    IF target_id \in DOMAIN load_ownership(file)
    THEN Remove(load_ownership(file), target_id)
    ELSE file

\* load_ownership().get(target_id, {}).get("owner"): <<owner>>, or <<>> for None
get_owner(file, target_id) ==
    IF target_id \in DOMAIN load_ownership(file)
    THEN <<load_ownership(file)[target_id].owner>>
    ELSE <<>>

get_app_key(file, target_id) ==
    IF target_id \in DOMAIN load_ownership(file)
    THEN load_ownership(file)[target_id].key
    ELSE NoKey

set_last_run(file, target_id, value) ==
    IF target_id \in DOMAIN load_ownership(file)
    THEN [load_ownership(file) EXCEPT ![target_id].last_run = value]
    ELSE file

\* secrets.token_urlsafe(16) (bot.py:977, 1114, 1183): a key that no record
\* of the store holds
NewKeys(file) ==
    LET unused == Keys \ {load_ownership(file)[t].key : t \in DOMAIN load_ownership(file)}
    IN  {k \in unused : \A j \in unused : k <= j}

(***************************************************************************)
(* The file system: a function from absolute normalised paths to           *)
(* [kind, data], kind "dir" or "file".  data is the file's content, a       *)
(* sequence of tokens ("\n" ends a line).                                  *)
(***************************************************************************)
DirNode == [kind |-> "dir", data |-> <<>>]

FileNode(data) == [kind |-> "file", data |-> data]

\* os.path.exists(p)
Exists(f, p) == AbsPath(p) \in DOMAIN f

IsFile(f, p) == Exists(f, p) /\ f[AbsPath(p)].kind = "file"

IsDir(f, p) == Exists(f, p) /\ f[AbsPath(p)].kind = "dir"

\* the absolute path a and every directory above it
RECURSIVE Ancestors(_)
Ancestors(a) ==
    IF a = <<"/">> \/ ~Has(a, "/") THEN {a}
    ELSE {a} \cup Ancestors(IF DirName(a) = <<>> THEN <<"/">> ELSE DirName(a))

\* os.makedirs(p, exist_ok=True)
MakeDirs(f, p) ==
    LET new == Ancestors(AbsPath(p)) \ DOMAIN f
    IN  [q \in DOMAIN f \cup new |-> IF q \in DOMAIN f THEN f[q] ELSE DirNode]

\* open(p, "w").write(data)
WriteFile(f, p, data) ==
    LET a == AbsPath(p)
    IN  [q \in DOMAIN f \cup {a} |-> IF q = a THEN FileNode(data) ELSE f[q]]

\* open(p, "a"): the file is created empty when it is missing
OpenAppend(f, p) == IF Exists(f, p) THEN f ELSE WriteFile(f, p, <<>>)

\* os.remove(p), its error swallowed
RemoveFile(f, p) ==
    IF IsFile(f, p) THEN [q \in DOMAIN f \ {AbsPath(p)} |-> f[q]] ELSE f

\* the paths at or below directory p
Below(f, p) ==
    LET a == AbsPath(p)
    IN  {q \in DOMAIN f : q = a \/ StartsWith(q, a \o <<"/">>)}

\* shutil.rmtree(p, ignore_errors=True)
RmTree(f, p) ==
    IF IsDir(f, p) THEN [q \in DOMAIN f \ Below(f, p) |-> f[q]] ELSE f

\* open(p, mode) can create or open p: its directory exists and p is no directory
CanOpen(f, p) ==
    /\ IsDir(f, IF DirName(p) = <<>> THEN <<".">> ELSE DirName(p))
    /\ ~IsDir(f, p)

(***************************************************************************)
(* The order of Python's sorted() on strings: lexicographic, by the        *)
(* character codes.  TokOrder lists the tokens of the model in that order  *)
(* (a name is always followed by a separator or by the end of the string). *)
(***************************************************************************)
TokOrder ==
    <<" ", "#", ".", "/", "0", "1", "2", "=", "JS", "PLACEHOLDER", "_", "a", "app",
      "b", "bot", "d", "env", "git", "index", "js", "json", "l", "log", "m", "main",
      "node_modules", "package", "py", "pyc", "r", "req", "requirements", "scripts",
      "server", "sh", "srv", "start", "txt", "u", "x", "|">>

TokRank(t) == CHOOSE i \in 1..Len(TokOrder) : TokOrder[i] = t

RECURSIVE StrLess(_, _)
StrLess(a, b) ==
    IF b = <<>> THEN FALSE
    ELSE IF a = <<>> THEN TRUE
    ELSE IF Head(a) = Head(b) THEN StrLess(Tail(a), Tail(b))
    ELSE TokRank(Head(a)) < TokRank(Head(b))

\* sorted(S) for a set S of strings
RECURSIVE Sorted(_)
Sorted(S) ==
    IF S = {} THEN <<>>
    ELSE LET m == CHOOSE x \in S : \A y \in S \ {x} : StrLess(x, y)
         IN  <<m>> \o Sorted(S \ {m})

\* str.lower(), token by token
Lower(s) == [i \in 1..Len(s) |-> IF s[i] = "JS" THEN "js" ELSE s[i]]

(***************************************************************************)
(* bot.py:180-197, list_files_safe.  The files below work_dir, relative to *)
(* it, without those of .git/ and node_modules/ and without .pyc files,    *)
(* sorted.  The loop stops once max_files files are kept; which ones it    *)
(* has kept by then is the order in which the directory is walked.         *)
(***************************************************************************)
RelFiles(f, work_dir) ==
    LET a == AbsPath(work_dir)
    IN  {SubSeq(q, Len(a) + 2, Len(q)) :
            q \in {r \in Below(f, work_dir) : r # a /\ f[r].kind = "file"}}

KeptFiles(f, work_dir) ==
    {rel \in RelFiles(f, work_dir) :
        /\ ~StartsWith(rel, <<".", "git", "/">>)
        /\ ~StartsWith(rel, <<"node_modules", "/">>)
        /\ ~EndsWith(rel, <<".", "pyc">>)}

\* bot.py:185-196: the walk stops at max_files files, and the list is sorted
Capped(kept, max_files) ==
    IF Cardinality(kept) <= max_files THEN Sorted(kept)
    ELSE Sorted(CHOOSE S \in SUBSET kept : Cardinality(S) = max_files)

list_files_safe(f, work_dir, max_files) ==
    IF ~Exists(f, work_dir) THEN <<>> ELSE Capped(KeptFiles(f, work_dir), max_files)

(***************************************************************************)
(* bot.py:200-247, resolve_run_command.  A command is a sequence of        *)
(* strings, or NoCmd.  A package.json whose content is <<"start">> is one   *)
(* that parses and declares scripts.start.                                 *)
(***************************************************************************)
\* the command None; "not cmd" (bot.py:283) holds of it
NoCmd == <<>>

\* bot.py:221-227
by_ext(path_rel) ==
    LET pieces == Split(path_rel, ".")
        ext == Lower(pieces[Len(pieces)])
    IN  IF ext = <<"js">> THEN <<<<"node">>, path_rel>>
        ELSE IF ext = <<"sh">> THEN <<<<"bash">>, path_rel>>
        ELSE <<<<"python">>, <<"-u">>, path_rel>>

\* bot.py:233-237
candidates ==
    << <<"main", ".", "py">>, <<"app", ".", "py">>, <<"server", ".", "py">>,
       <<"bot", ".", "py">>, <<"index", ".", "js">>, <<"server", ".", "js">>,
       <<"start", ".", "sh">> >>

\* bot.py:210-219
PkgHasStart(f, work_dir) ==
    LET pkg == PathJoin(work_dir, <<"package", ".", "json">>)
    IN  IsFile(f, pkg) /\ f[AbsPath(pkg)].data = <<"start">>

Runnable(name) ==
    \/ EndsWith(name, <<".", "py">>)
    \/ EndsWith(name, <<".", "js">>)
    \/ EndsWith(name, <<".", "sh">>)

\* bot.py:243, the max_files the fallback walk passes
WalkMax == 200

\* by_ext(c), c
Chosen(c) == [cmd |-> by_ext(c), chosen |-> c]

\* the last of the candidates that exists
FirstCandidate_last(present) == Chosen(candidates[CHOOSE i \in present : \A j \in present : j <= i])

\* bot.py:238-240, the first of the candidates that exists
FirstCandidate(present) == Chosen(candidates[CHOOSE i \in present : \A j \in present : i <= j])

\* bot.py:243-247, the first runnable file of the walk
FirstRunnable(walked) ==
    LET hits == {i \in 1..Len(walked) : Runnable(walked[i])}
    IN  IF hits = {} THEN [cmd |-> NoCmd, chosen |-> None]
        ELSE Chosen(walked[CHOOSE i \in hits : \A j \in hits : i <= j])

\* bot.py:238-247
CommonEntry(f, work_dir, present) ==
    IF present # {} THEN FirstCandidate(present)
    ELSE FirstRunnable(list_files_safe(f, work_dir, WalkMax))

resolve_run_command(f, work_dir, script_rel) ==
    IF /\ PkgHasStart(f, work_dir)
       /\ (script_rel = None \/ EndsWith(script_rel, <<".", "js">>))
    THEN [cmd |-> <<<<"npm">>, <<"start">>>>, chosen |-> None]
    ELSE IF script_rel # None /\ script_rel # <<>>
    THEN Chosen(script_rel)
    ELSE CommonEntry(f, work_dir,
            {i \in 1..Len(candidates) : Exists(f, PathJoin(work_dir, candidates[i]))})

(***************************************************************************)
(* bot.py:262-325, the process supervisor.  A world is the state the       *)
(* supervisor reads and writes: [own, reg, procs, fs], the content of      *)
(* ownership.json, running_processes, the process table and the file       *)
(* system.  A process is "alive", "signalled" (alive, SIGTERM delivered)   *)
(* or "exited".                                                            *)
(***************************************************************************)
\* os.killpg(os.getpgid(pid), signal.SIGTERM), its error swallowed
Killpg(ps, pid) ==
    IF pid \in DOMAIN ps /\ ps[pid].st = "alive"
    THEN [ps EXCEPT ![pid].st = "signalled"]
    ELSE ps

\* bot.py:266-270 and 316-320
KillPrevious(reg, ps, target_id) ==
    IF target_id \in DOMAIN reg THEN Killpg(ps, reg[target_id].process) ELSE ps

\* bot.py:298, 328, 498
log_path_of(target_id) ==
    PathJoin(UPLOAD_DIR, Replace(target_id, "|", "_") \o <<".", "log">>)

\* Popen.poll() is None
Polls(ps, pid) == ps[pid].st # "exited"

\* the liveness check without the poll of the handle
is_running_entry_only(reg, ps, target_id) == target_id \in DOMAIN reg

\* bot.py:442, 1224, 1237: the liveness check of the read paths
is_running(reg, ps, target_id) ==
    target_id \in DOMAIN reg /\ Polls(ps, reg[target_id].process)

\* bot.py:273-281, the command of target_id
DetectFor(w, target_id) ==
    LET paths == resolve_paths(target_id)
        data == load_ownership(w.own)
        entry == IF target_id \in DOMAIN data THEN data[target_id].entry ELSE None
    IN  resolve_run_command(w.fs, paths.work_dir,
                            IF is_repo_id(target_id) THEN entry ELSE paths.script_path)

\* the entry saved only when the detector chose a file
SaveChosenEntry_chosen_only(file, target_id, chosen) ==
    IF is_repo_id(target_id) /\ target_id \in DOMAIN load_ownership(file) /\ chosen # None
    THEN [load_ownership(file) EXCEPT ![target_id].entry = chosen]
    ELSE file

\* bot.py:287-292
SaveChosenEntry(file, target_id, chosen) ==
    IF is_repo_id(target_id) /\ target_id \in DOMAIN load_ownership(file)
    THEN [load_ownership(file) EXCEPT ![target_id].entry = chosen]
    ELSE file

\* InstallEntry without the call of set_last_run at bot.py:311
InstallEntry_no_last_run(w, target_id, pid, time) ==
    [w EXCEPT !.reg = Upsert(w.reg, target_id, [process |-> pid, started_at |-> time])]

\* bot.py:310-311, once Popen has returned the process pid
InstallEntry(w, target_id, pid, time) ==
    [w EXCEPT !.reg = Upsert(w.reg, target_id, [process |-> pid, started_at |-> time]),
              !.own = set_last_run(w.own, target_id, TRUE)]

\* subprocess.Popen(...): the new process, in a session of its own
Spawn(ps, target_id) ==
    [p \in DOMAIN ps \cup {Cardinality(DOMAIN ps) + 1} |->
        IF p \in DOMAIN ps THEN ps[p] ELSE [tid |-> target_id, st |-> "alive"]]

\* bot.py:301-313, Popen and what follows it
StartPopen(w3, target_id, spawn_ok, time) ==
    IF ~spawn_ok THEN [w |-> w3, res |-> "spawn_failed"]
    ELSE [w |-> InstallEntry([w3 EXCEPT !.procs = Spawn(w3.procs, target_id)],
                             target_id, Cardinality(DOMAIN w3.procs) + 1, time),
          res |-> "started"]

\* bot.py:297-299, the log file is opened for append
StartOpenLog(w2, target_id, spawn_ok, time) ==
    IF ~CanOpen(w2.fs, log_path_of(target_id)) THEN [w |-> w2, res |-> "raised"]
    ELSE StartPopen([w2 EXCEPT !.fs = OpenAppend(w2.fs, log_path_of(target_id))],
                    target_id, spawn_ok, time)

\* bot.py:283-294, no command, or the entry saved and the work_dir made
StartPrepare(w1, det, target_id, spawn_ok, time) ==
    IF det.cmd = NoCmd THEN [w |-> w1, res |-> "no_entry"]
    ELSE StartOpenLog([w1 EXCEPT !.own = SaveChosenEntry(w1.own, target_id, det.chosen),
                                 !.fs = MakeDirs(w1.fs, resolve_paths(target_id).work_dir)],
                      target_id, spawn_ok, time)

\* bot.py:272-281, the command is decided
StartDecide(w1, target_id, spawn_ok, time) ==
    StartPrepare(w1, DetectFor(w1, target_id), target_id, spawn_ok, time)

\* restart_process_background(target_id): the world after the call and how
\* the call ended: "no_entry" (bot.py:283-285), "raised" (open() of the log
\* file at bot.py:299 raises: the log's directory is missing), "started", or
\* "spawn_failed" (bot.py:312-313).  spawn_ok: whether Popen succeeds.
restart_process_background(w, target_id, spawn_ok, time) ==
    StartDecide([w EXCEPT !.procs = KillPrevious(w.reg, w.procs, target_id)],
                target_id, spawn_ok, time)

\* stop_process without the del of bot.py:322
stop_process_no_del(w, target_id) ==
    [w EXCEPT !.procs = KillPrevious(w.reg, w.procs, target_id),
              !.own = set_last_run(w.own, target_id, FALSE)]

\* stop_process(target_id)
stop_process(w, target_id) ==
    [w EXCEPT !.procs = KillPrevious(w.reg, w.procs, target_id),
              !.reg = Remove(w.reg, target_id),
              !.own = set_last_run(w.own, target_id, FALSE)]

(***************************************************************************)
(* The inputs of the model: who calls, with which files and identifiers.   *)
(***************************************************************************)
\* the chat users: user 1 uploads files, user 2 clones repositories.  One of
\* them, the tenant, is active in a behaviour, next to the operator.
Users == {1, 2}

\* the values ADMIN_ID takes: 0 when the variable is unset (bot.py:36), or a user id
AdminIds == {0, 3}

\* the chat users who press buttons: the owner of the targets and the other user
ChatUsers == Users

\* str(uid)
Str(uid) == <<"0", "1", "2", "3">>[uid + 1]

\* the file names user 1 uploads: a script, and a file receive_file refuses
UploadNames == {<<"a", ".", "py">>, <<"x", ".", "txt">>}

\* the repository user 2 clones: url.split("/")[-1].replace(".git", "")
RepoBase == <<"r">>

\* what the cloned repository holds, file -> content
RepoLayouts ==
    { (<<"x", ".", "txt">> :> <<>>),
      (<<"m", ".", "py">> :> <<"code">>) }

TFile == <<"u", "1", "|", "a", ".", "py">>

TPlaceholder == <<"r", "_", "u", "2", "|", "PLACEHOLDER">>

TLegacy == <<"l", ".", "sh">>

\* the identifiers the buttons name: the listed targets, and the button of
\* an old listing of user 1's file, whose record may since have been deleted
ButtonTids == DOMAIN ownership \cup (IF 1 \in DOMAIN user_data THEN {TFile} ELSE {})

(***************************************************************************)
(* The state.                                                              *)
(***************************************************************************)
World == [own |-> ownership, reg |-> running_processes, procs |-> procs, fs |-> fs]

SetWorld(w) ==
    /\ ownership' = w.own
    /\ running_processes' = w.reg
    /\ procs' = w.procs
    /\ fs' = w.fs

\* one operation's record: what was asked, by whom, and the answer
Op(op, tid, uid, res) ==
    [op |-> op, tid |-> tid, uid |-> uid, key |-> NoKey, name |-> <<>>,
     res |-> res, touched |-> {}, paths |-> <<>>]

\* a chat user's context.user_data and the state of the two conversations
NoUserData == [target_id |-> None, repo_name |-> None, file_conv |-> "END", git_conv |-> "END"]

UserData(uid) == IF uid \in DOMAIN user_data THEN user_data[uid] ELSE NoUserData

\* the two threads of the service (bot.py:1425-1436): the bot's event loop on
\* the main thread and the Flask server on its own; pc is the thread's place
\* inside restart_process_background
Threads == {"bot", "flask"}

Resting == [pc |-> "idle", tid |-> <<>>, pid |-> 0]

Idle == [c \in Threads |-> Resting]

\* a thread outside _write_json: pc "idle"; inside it: "loaded" (the map is
\* loaded and modified, bot.py:112-113), "opened" (the temporary file is open
\* and truncated, bot.py:85), "written" (json.dump done and the file closed,
\* bot.py:86).  fd: the name the open file has by now, "tmp" or "main".
NotWriting == [pc |-> "idle", op |-> "none", tid |-> <<>>, data |-> <<>>, fd |-> "tmp"]

NoWriter == [c \in Threads |-> NotWriting]

\* the module's top level: bot.py:36-50
Init ==
    /\ ADMIN_ID = 3
    /\ ownership = <<>>
    /\ running_processes = <<>>
    /\ procs = <<>>
    /\ fs = MakeDirs(<<>>, UPLOAD_DIR)
    /\ now = 0
    /\ \E tenant \in Users : user_data = [u \in {tenant} |-> NoUserData]
    /\ last = Op("boot", <<>>, 0, "ok")
    /\ ctx = Idle
    /\ tmp = NoFile
    /\ writer = NoWriter
    /\ history = <<>>

\* a Start may spawn: the process table is not full
CanSpawn == Cardinality(DOMAIN procs) < MaxProcs

(***************************************************************************)
(* The environment: a process exits, the clock advances.                   *)
(***************************************************************************)
\* a process ends: by itself, or on the SIGTERM it was sent
ProcExit(p) ==
    /\ p \in DOMAIN procs
    /\ procs[p].st # "exited"
    /\ procs' = [procs EXCEPT ![p].st = "exited"]
    /\ last' = Op("exit", <<>>, 0, "ok")
    /\ UNCHANGED <<ADMIN_ID, tmp, writer, history, ownership, running_processes, fs, now, user_data, ctx>>

Tick ==
    /\ now < MaxTime
    /\ now' = now + 1
    /\ last' = Op("tick", <<>>, 0, "ok")
    /\ UNCHANGED <<ADMIN_ID, tmp, writer, history, ownership, running_processes, procs, fs, user_data, ctx>>

(***************************************************************************)
(* bot.py:953-990, receive_file.                                           *)
(***************************************************************************)
receive_file(uid, fname, key) ==
    LET user_dir == PathJoin(UPLOAD_DIR, <<Str(uid)>>)
        unique_id == <<"u", Str(uid), "|">> \o fname
        record == [owner |-> uid, type |-> "file", key |-> key,
                   last_run |-> FALSE, entry |-> fname]
    IN  IF ~Runnable(fname)
        THEN /\ last' = Op("upload", unique_id, 0, "invalid_type")
             /\ UNCHANGED <<ownership, fs, user_data>>
        ELSE /\ fs' = WriteFile(MakeDirs(fs, user_dir), PathJoin(user_dir, fname), <<"code">>)
             /\ ownership' = save_ownership_record(ownership, unique_id, record)
             /\ user_data' = [user_data EXCEPT ![uid].target_id = unique_id,
                                               ![uid].file_conv = "WAIT_EXTRAS"]
             /\ last' = Op("upload", unique_id, 0, "saved")

ReceiveFile ==
    /\ 1 \in DOMAIN user_data
    /\ \E fname \in UploadNames, key \in NewKeys(ownership) : receive_file(1, fname, key)
    /\ UNCHANGED <<ADMIN_ID, tmp, writer, history, running_processes, procs, now, ctx>>

(***************************************************************************)
(* bot.py:1194-1210, execute_logic: Start of the conversation's target,    *)
(* or of fallback_id when the conversation has none.                       *)
(***************************************************************************)
LaunchTarget(uid, fallback_id) ==
    IF UserData(uid).target_id # None THEN UserData(uid).target_id ELSE fallback_id

\* the world and the record of a Start that ended as r, with the reply sent
\* once restart_process_background has returned (bot.py:1201-1209)
Started(op, tid, r) ==
    /\ SetWorld(r.w)
    /\ last' = [Op(op, tid, 0, r.res)
                  EXCEPT !.paths = IF r.res = "raised" THEN <<>> ELSE <<"Launched!">>]

execute_logic(op, uid, tid, w, spawn_ok) ==
    Started(op, tid, restart_process_background(w, tid, spawn_ok, now))

\* bot.py:992-996, "RUN NOW" in the upload conversation
RunNow ==
    /\ CanSpawn
    /\ \E uid \in DOMAIN user_data, spawn_ok \in BOOLEAN :
        /\ user_data[uid].file_conv = "WAIT_EXTRAS"
        /\ execute_logic("start", uid, LaunchTarget(uid, None), World, spawn_ok)
        /\ user_data' = [user_data EXCEPT ![uid].file_conv = "END"]
    /\ UNCHANGED <<ADMIN_ID, tmp, writer, history, now, ctx>>

(***************************************************************************)
(* bot.py:1270-1353, manage_callback: the buttons of a listed target.      *)
(***************************************************************************)
\* bot.py:1279, 1288, ...: uid != ADMIN_ID and uid != owner
Denied(uid, tid) == uid # ADMIN_ID /\ <<uid>> # get_owner(ownership, tid)

\* bot.py:1294-1301, rerun_
Rerun ==
    /\ CanSpawn
    /\ \E uid \in ChatUsers, tid \in ButtonTids, spawn_ok \in BOOLEAN :
        IF Denied(uid, tid)
        THEN /\ last' = Op("button", <<>>, 0, "denied")
             /\ UNCHANGED <<ownership, running_processes, procs, fs>>
        ELSE execute_logic("start", uid, LaunchTarget(uid, tid), World, spawn_ok)
    /\ UNCHANGED <<ADMIN_ID, tmp, writer, history, now, user_data, ctx>>

\* bot.py:1285-1291, stop_
StopButton ==
    /\ \E uid \in ChatUsers, tid \in ButtonTids :
        IF Denied(uid, tid)
        THEN /\ last' = Op("button", <<>>, 0, "denied")
             /\ UNCHANGED <<ownership, running_processes, procs, fs>>
        ELSE /\ SetWorld(stop_process(World, tid))
             /\ last' = Op("stop", tid, 0, "stopped")
    /\ UNCHANGED <<ADMIN_ID, tmp, writer, history, now, user_data, ctx>>

\* bot.py:1335-1352: the record and the target's files are deleted
delete_target(w, tid) ==
    LET w1 == stop_process(w, tid)
        paths == resolve_paths(tid)
    IN  [w1 EXCEPT
            !.own = delete_ownership(w1.own, tid),
            !.fs = IF is_repo_id(tid) THEN RmTree(w1.fs, paths.work_dir)
                   ELSE IF is_user_file_id(tid)
                   THEN RemoveFile(w1.fs, PathJoin(paths.work_dir, paths.script_path))
                   ELSE RemoveFile(w1.fs, PathJoin(UPLOAD_DIR, tid))]

\* bot.py:1330-1353, del_
DeleteButton ==
    /\ \E uid \in ChatUsers, tid \in ButtonTids :
        IF Denied(uid, tid)
        THEN /\ last' = Op("button", <<>>, 0, "denied")
             /\ UNCHANGED <<ownership, running_processes, procs, fs>>
        ELSE /\ SetWorld(delete_target(World, tid))
             /\ last' = Op("delete", tid, 0, "deleted")
    /\ UNCHANGED <<ADMIN_ID, tmp, writer, history, now, user_data, ctx>>

\* the targets, callers, file names and variables of the web requests
WebTids == {TFile}

WebUids == {0, 1} \cup AdminIds

\* the file names of a request: the uploaded script; ../x and /x
OwnNames == {<<"a", ".", "py">>}

WebNames == OwnNames \cup {<<".", ".", "/", "x">>, <<"/", "x">>}

EnvKeys == {<<"a">>, <<>>}

EnvValues == {<<"x">>}

(***************************************************************************)
(* bot.py:430-444, the status query.                                       *)
(***************************************************************************)
\* status with the liveness answered before the key is compared
status_running_first(script, key) ==
    IF script = <<>> THEN "specify_script"
    ELSE IF is_running(running_processes, procs, script) THEN "running"
    ELSE IF get_app_key(ownership, script) = NoKey \/ key # get_app_key(ownership, script)
    THEN "forbidden"
    ELSE "stopped"

status(script, key) ==
    IF script = <<>> THEN "specify_script"
    ELSE IF get_app_key(ownership, script) = NoKey \/ key # get_app_key(ownership, script)
    THEN "forbidden"
    ELSE IF is_running(running_processes, procs, script)
    THEN "running"
    ELSE "stopped"

Status ==
    /\ \E script \in WebTids \cup {<<>>}, key \in {NoKey} \cup Keys :
        last' = [Op("status", script, 0, status(script, key)) EXCEPT !.key = key]
    /\ UNCHANGED <<ADMIN_ID, tmp, writer, history, ownership, running_processes, procs, fs, now, user_data, ctx>>

(***************************************************************************)
(* bot.py:1095-1191, the clone conversation.                               *)
(***************************************************************************)
\* git clone url repo_path: the repository's files below repo_path
CloneInto(f, repo_path, layout) ==
    LET at(name) == AbsPath(PathJoin(repo_path, name))
        made == MakeDirs(f, repo_path)
        dirs == UNION {Ancestors(at(name)) \ {at(name)} : name \in DOMAIN layout}
        files == {at(name) : name \in DOMAIN layout}
        name_of(q) == CHOOSE name \in DOMAIN layout : at(name) = q
    IN  [q \in DOMAIN made \cup dirs \cup files |->
            IF q \in files THEN FileNode(layout[name_of(q)])
            ELSE IF q \in DOMAIN made THEN made[q]
            ELSE DirNode]

\* bot.py:1095-1129, receive_git_url.  clone_ok: whether git clone succeeds.
receive_git_url(uid, layout, key, clone_ok) ==
    LET repo_name == RepoBase \o <<"_", "u", Str(uid)>>
        repo_path == PathJoin(UPLOAD_DIR, repo_name)
        tid == repo_name \o <<"|", "PLACEHOLDER">>
        record == [owner |-> uid, type |-> "repo", key |-> key,
                   last_run |-> FALSE, entry |-> None]
    IN  IF ~clone_ok
        THEN /\ fs' = RmTree(fs, repo_path)
             /\ user_data' = [user_data EXCEPT ![uid].git_conv = "END"]
             /\ last' = Op("clone", tid, 0, "error")
             /\ UNCHANGED ownership
        ELSE /\ fs' = CloneInto(RmTree(fs, repo_path), repo_path, layout)
             /\ ownership' = save_ownership_record(ownership, tid, record)
             /\ user_data' = [user_data EXCEPT ![uid].repo_name = repo_name,
                                               ![uid].target_id = tid,
                                               ![uid].git_conv = "WAIT_GIT_EXTRAS"]
             /\ last' = Op("clone", tid, 0, "cloned")

ReceiveGitUrl ==
    /\ 2 \in DOMAIN user_data
    /\ \E layout \in RepoLayouts, key \in NewKeys(ownership), clone_ok \in BOOLEAN :
        receive_git_url(2, layout, key, clone_ok)
    /\ UNCHANGED <<ADMIN_ID, tmp, writer, history, running_processes, procs, now, ctx>>

\* bot.py:180, the default max_files
ListMax == 400

\* bot.py:1148-1157, the files show_file_selection offers: files[:20]
Offered(f, repo_path) ==
    LET listed == list_files_safe(f, repo_path, ListMax)
        files == SelectSeq(listed, Runnable)
    IN  {files[i] : i \in 1..(IF Len(files) < 20 THEN Len(files) ELSE 20)}

\* bot.py:1142-1155, "Select File to Run" when the repository has no runnable file
NoFileToSelect ==
    /\ \E uid \in DOMAIN user_data :
        /\ user_data[uid].git_conv = "WAIT_GIT_EXTRAS"
        /\ Offered(fs, PathJoin(UPLOAD_DIR, user_data[uid].repo_name)) = {}
        /\ user_data' = [user_data EXCEPT ![uid].git_conv = "END"]
        /\ last' = Op("select", user_data[uid].target_id, 0, "no_runnable_files")
    /\ UNCHANGED <<ADMIN_ID, tmp, writer, history, ownership, running_processes, procs, fs, now, ctx>>

\* bot.py:1169-1187, the record of the placeholder moves to the selected file
select_record(file, uid, old_tid, new_tid, filename, key) ==
    LET data == load_ownership(file)
    IN  IF old_tid \in DOMAIN data
        THEN Remove(Upsert(data, new_tid, [data[old_tid] EXCEPT !.entry = filename]), old_tid)
        ELSE save_ownership_record(file, new_tid,
                [owner |-> uid, type |-> "repo", key |-> key,
                 last_run |-> FALSE, entry |-> filename])

\* bot.py:1161-1191, select_git_file, which ends in execute_logic
SelectGitFile ==
    /\ CanSpawn
    /\ \E uid \in DOMAIN user_data, key \in NewKeys(ownership), spawn_ok \in BOOLEAN :
        /\ user_data[uid].git_conv = "WAIT_GIT_EXTRAS"
        /\ \E filename \in Offered(fs, PathJoin(UPLOAD_DIR, user_data[uid].repo_name)) :
            LET old_tid == user_data[uid].target_id
                new_tid == user_data[uid].repo_name \o <<"|">> \o filename
                own1 == select_record(ownership, uid, old_tid, new_tid, filename, key)
            IN  /\ execute_logic("start", uid, new_tid, [World EXCEPT !.own = own1], spawn_ok)
                /\ user_data' = [user_data EXCEPT ![uid].target_id = new_tid,
                                                  ![uid].git_conv = "END"]
    /\ UNCHANGED <<ADMIN_ID, tmp, writer, history, now, ctx>>

Next ==
    \/ \E p \in 1..MaxProcs : ProcExit(p)
    \/ ReceiveFile
    \/ RunNow
    \/ ReceiveGitUrl
    \/ NoFileToSelect
    \/ SelectGitFile
    \/ Rerun
    \/ StopButton
    \/ DeleteButton

Spec == Init /\ [][Next]_vars

(***************************************************************************)
(* bot.py:698-717, the env file: lines KEY=VALUE.                          *)
(***************************************************************************)
RECURSIVE ParseEnvLines(_, _)
ParseEnvLines(lines, out) ==
    IF lines = <<>> THEN out
    ELSE LET s == Strip(Head(lines)) IN
         IF s = <<>> \/ Head(s) = "#" \/ ~Has(s, "=")
         THEN ParseEnvLines(Tail(lines), out)
         ELSE ParseEnvLines(Tail(lines),
                            Upsert(out, Strip(SplitFirst(s, "=")[1]), Strip(SplitFirst(s, "=")[2])))

parse_env_file(f, env_path) ==
    IF ~Exists(f, env_path) THEN <<>>
    ELSE ParseEnvLines(Split(f[AbsPath(env_path)].data, "\n"), <<>>)

EnvLines(env) ==
    LET keys == Sorted(DOMAIN env)
    IN  [i \in 1..Len(keys) |-> keys[i] \o <<"=">> \o env[keys[i]]]

write_env_file(f, env_path, env) ==
    WriteFile(MakeDirs(f, DirName(env_path)), env_path, JoinWith(EnvLines(env), "\n"))

(***************************************************************************)
(* The web requests.  Each handler gives the world after the request, the  *)
(* answer, and the paths of the files and directories it created, read or  *)
(* wrote.                                                                  *)
(***************************************************************************)
Answer(w, res, touched) == [w |-> w, res |-> res, touched |-> touched]

\* the access test skipped for a target nobody owns
AccessDenied_owned_only(w, tid, uid) ==
    /\ get_owner(w.own, tid) # <<>>
    /\ uid # ADMIN_ID
    /\ <<uid>> # get_owner(w.own, tid)

\* uid != ADMIN_ID and uid != owner (bot.py:494, 594, 609, 733, 747, 766, 854, 881)
AccessDenied(w, tid, uid) == uid # ADMIN_ID /\ <<uid>> # get_owner(w.own, tid)

\* bot.py:489-507
logs_api(w, tid, uid) ==
    LET log_path == log_path_of(tid)
    IN  IF AccessDenied(w, tid, uid) THEN Answer(w, "denied", {})
        ELSE IF ~Exists(w.fs, log_path) THEN Answer(w, "no_logs", {})
        ELSE IF ~IsFile(w.fs, log_path) THEN Answer(w, "failed", {})
        ELSE Answer(w, "logs", {AbsPath(log_path)})

\* bot.py:589-599
files_api(w, tid, uid) ==
    LET work_dir == resolve_paths(tid).work_dir
    IN  IF AccessDenied(w, tid, uid) THEN Answer(w, "denied", {})
        ELSE IF ~Exists(w.fs, work_dir) THEN Answer(w, "files", {})
        ELSE Answer(w, "files", {AbsPath(work_dir)})

\* bot.py:601-625
api_create_file(w, tid, uid, raw_name) ==
    LET name == Strip(raw_name)
        work_dir == resolve_paths(tid).work_dir
        target == PathJoin(work_dir, name)
        made == MakeDirs(w.fs, DirName(target))
    IN  IF AccessDenied(w, tid, uid) THEN Answer(w, "denied", {})
        ELSE IF name = <<>> \/ Contains(name, <<".", ".">>) \/ StartsWith(name, <<"/">>)
        THEN Answer(w, "invalid_name", {})
        ELSE IF ~within_dir(work_dir, target) THEN Answer(w, "security_block", {})
        ELSE IF Exists(made, target)
        THEN Answer([w EXCEPT !.fs = made], "exists", {AbsPath(DirName(target))})
        ELSE Answer([w EXCEPT !.fs = WriteFile(made, target, <<>>)], "ok",
                    {AbsPath(DirName(target)), AbsPath(target)})

\* bot.py:728-739
env_api(w, tid, uid) ==
    LET paths == resolve_paths(tid)
    IN  IF AccessDenied(w, tid, uid) THEN Answer(w, "denied", {})
        ELSE IF ~Exists(w.fs, paths.work_dir) THEN Answer(w, "workdir_missing", {})
        ELSE IF ~Exists(w.fs, paths.env_path) THEN Answer(w, "env", {})
        ELSE Answer(w, "env", {AbsPath(paths.env_path)})

\* bot.py:741-758
env_save_api(w, tid, uid, raw_k, raw_v) ==
    LET k == Strip(raw_k)
        v == Strip(raw_v)
        env_path == resolve_paths(tid).env_path
        env == Upsert(parse_env_file(w.fs, env_path), k, v)
    IN  IF AccessDenied(w, tid, uid) THEN Answer(w, "denied", {})
        ELSE IF k = <<>> \/ Has(k, " ") \/ Has(k, "\n") THEN Answer(w, "invalid_key", {})
        ELSE Answer([w EXCEPT !.fs = write_env_file(w.fs, env_path, env)], "ok",
                    {AbsPath(env_path)})

\* bot.py:760-774
env_delete_api(w, tid, uid, raw_k) ==
    LET k == Strip(raw_k)
        env_path == resolve_paths(tid).env_path
        env == parse_env_file(w.fs, env_path)
    IN  IF AccessDenied(w, tid, uid) THEN Answer(w, "denied", {})
        ELSE IF k \in DOMAIN env
        THEN Answer([w EXCEPT !.fs = write_env_file(w.fs, env_path, Remove(env, k))], "ok",
                    {AbsPath(env_path)})
        ELSE Answer(w, "ok", IF Exists(w.fs, env_path) THEN {AbsPath(env_path)} ELSE {})

\* bot.py:847-870
editor_page(w, tid, uid, filename) ==
    LET work_dir == resolve_paths(tid).work_dir
        file_path == PathJoin(work_dir, filename)
    IN  IF AccessDenied(w, tid, uid) THEN Answer(w, "denied", {})
        ELSE IF ~within_dir(work_dir, file_path) THEN Answer(w, "security_block", {})
        ELSE IF ~Exists(w.fs, file_path) THEN Answer(w, "editor", {})
        ELSE IF IsDir(w.fs, file_path) THEN Answer(w, "raised", {})
        ELSE Answer(w, "editor", {AbsPath(file_path)})

\* bot.py:899-904, the answer after restart_process_background ended as r
SaveRestarted(r, touched) ==
    IF r.res = "raised" THEN Answer(r.w, "error", touched)
    ELSE Answer(r.w, "success", touched)

\* bot.py:890-900, the install of a requirements or package file, and the Start
SaveInstall(written, tid, filename, touched, install_ok, spawn_ok, time) ==
    IF /\ \/ filename = <<"requirements", ".", "txt">>
          \/ EndsWith(filename, <<".", "txt">>)
          \/ filename = <<"package", ".", "json">>
       /\ ~install_ok
    THEN Answer(written, "error", touched)
    ELSE SaveRestarted(restart_process_background(written, tid, spawn_ok, time), touched)

\* bot.py:886-888, the file is written
SaveWrite(made, tid, filename, file_path, code, install_ok, spawn_ok, time) ==
    IF ~CanOpen(made.fs, file_path)
    THEN Answer(made, "error", {AbsPath(DirName(file_path)), AbsPath(file_path)})
    ELSE SaveInstall([made EXCEPT !.fs = WriteFile(made.fs, file_path, code)],
                     tid, filename, {AbsPath(DirName(file_path)), AbsPath(file_path)},
                     install_ok, spawn_ok, time)

\* bot.py:872-904.  install_ok: whether the pip or npm install succeeds.
save_code(w, tid, uid, filename, code, install_ok, spawn_ok, time) ==
    LET work_dir == resolve_paths(tid).work_dir
        file_path == PathJoin(work_dir, filename)
    IN  IF AccessDenied(w, tid, uid) THEN Answer(w, "denied", {})
        ELSE IF ~within_dir(work_dir, file_path) THEN Answer(w, "security_block", {})
        ELSE SaveWrite([w EXCEPT !.fs = MakeDirs(w.fs, DirName(file_path))],
                       tid, filename, file_path, code, install_ok, spawn_ok, time)

\* one request: the world and the record of the request after it
Web(op, tid, uid, name, r) ==
    /\ SetWorld(r.w)
    /\ last' = [Op(op, tid, uid, r.res) EXCEPT !.name = name, !.touched = r.touched]
    /\ UNCHANGED <<ADMIN_ID, tmp, writer, history, now, user_data, ctx>>

LogsApi == \E tid \in WebTids, uid \in WebUids : Web("logs", tid, uid, <<>>, logs_api(World, tid, uid))

FilesApi == \E tid \in WebTids, uid \in WebUids : Web("files", tid, uid, <<>>, files_api(World, tid, uid))

CreateFile(names) ==
    \E tid \in WebTids, uid \in WebUids, name \in names :
        Web("create_file", tid, uid, name, api_create_file(World, tid, uid, name))

EnvApi == \E tid \in WebTids, uid \in WebUids : Web("env", tid, uid, <<>>, env_api(World, tid, uid))

EnvSave ==
    \E tid \in WebTids, uid \in WebUids, k \in EnvKeys, v \in EnvValues :
        Web("env_save", tid, uid, k, env_save_api(World, tid, uid, k, v))

EnvDelete ==
    \E tid \in WebTids, uid \in WebUids, k \in EnvKeys :
        Web("env_delete", tid, uid, k, env_delete_api(World, tid, uid, k))

EditorPage(names) ==
    \E tid \in WebTids, uid \in WebUids, filename \in names :
        Web("editor", tid, uid, filename, editor_page(World, tid, uid, filename))

SaveCode(names) ==
    /\ CanSpawn
    /\ \E tid \in WebTids, uid \in WebUids, filename \in names,
          install_ok \in BOOLEAN, spawn_ok \in BOOLEAN :
        Web("save_code", tid, uid, filename,
            save_code(World, tid, uid, filename, <<"code">>, install_ok, spawn_ok, now))

\* the service with the operator's identity as configured or defaulted
\* (bot.py:36), and one chat user
InitWeb ==
    /\ ADMIN_ID \in AdminIds
    /\ ownership = <<>>
    /\ running_processes = <<>>
    /\ procs = <<>>
    /\ fs = MakeDirs(<<>>, UPLOAD_DIR)
    /\ now = 0
    /\ user_data = [u \in {1} |-> NoUserData]
    /\ last = Op("boot", <<>>, 0, "ok")
    /\ ctx = Idle
    /\ tmp = NoFile
    /\ writer = NoWriter
    /\ history = <<>>

\* the log, env and file requests, next to uploads and exits
NextWeb ==
    \/ \E p \in 1..MaxProcs : ProcExit(p)
    \/ ReceiveFile
    \/ LogsApi
    \/ FilesApi
    \/ CreateFile(OwnNames)
    \/ EnvApi
    \/ EnvSave
    \/ EnvDelete
    \/ EditorPage(OwnNames)
    \/ SaveCode(OwnNames)

SpecWeb == InitWeb /\ [][NextWeb]_vars

\* the file requests with names inside and outside the workspace
NextFiles ==
    \/ \E p \in 1..MaxProcs : ProcExit(p)
    \/ ReceiveFile
    \/ CreateFile(WebNames)
    \/ EditorPage(WebNames)
    \/ SaveCode(WebNames)

SpecFiles == InitWeb /\ [][NextFiles]_vars

\* the status query, next to uploads, Starts, Stops and exits
NextStatus ==
    \/ \E p \in 1..MaxProcs : ProcExit(p)
    \/ ReceiveFile
    \/ RunNow
    \/ StopButton
    \/ Status

SpecStatus == InitWeb /\ [][NextStatus]_vars


(***************************************************************************)
(* The two threads interleaved.  restart_process_background runs on the    *)
(* caller's thread and takes no lock; a thread switch can fall between any *)
(* two of its statements.  Its steps: "kill" (bot.py:266-270), "detect"    *)
(* (273-299), "spawn" (301-309), "install" (310), "mark" (311).            *)
(***************************************************************************)
Enter(c, tid) == ctx' = [ctx EXCEPT ![c] = [pc |-> "kill", tid |-> tid, pid |-> 0]]

Goto(c, pc) == ctx' = [ctx EXCEPT ![c].pc = pc]

Leave(c, res) ==
    /\ ctx' = [ctx EXCEPT ![c] = Resting]
    /\ last' = Op("start", ctx[c].tid, 0, res)

\* the bot's handlers run one at a time on the event loop
BotUpload == ctx["bot"].pc = "idle" /\ ReceiveFile

\* bot.py:1194-1210, execute_logic calls restart_process_background
BotStartBegin ==
    /\ ctx["bot"].pc = "idle"
    /\ \E uid \in DOMAIN user_data :
        /\ user_data[uid].file_conv = "WAIT_EXTRAS"
        /\ LaunchTarget(uid, None) # None
        /\ Enter("bot", LaunchTarget(uid, None))
        /\ user_data' = [user_data EXCEPT ![uid].file_conv = "END"]
    /\ UNCHANGED <<ADMIN_ID, tmp, writer, history, ownership, running_processes, procs, fs, now, last>>

\* bot.py:872-900, save_code up to its call of restart_process_background
FlaskSaveBegin ==
    /\ ctx["flask"].pc = "idle"
    /\ \E tid \in WebTids, uid \in WebUids :
        LET work_dir == resolve_paths(tid).work_dir
            file_path == PathJoin(work_dir, <<"a", ".", "py">>)
        IN  /\ ~AccessDenied(World, tid, uid)
            /\ within_dir(work_dir, file_path)
            /\ fs' = WriteFile(MakeDirs(fs, DirName(file_path)), file_path, <<"code">>)
            /\ Enter("flask", tid)
    /\ UNCHANGED <<ADMIN_ID, tmp, writer, history, ownership, running_processes, procs, now, user_data, last>>

StartKill(c) ==
    /\ ctx[c].pc = "kill"
    /\ procs' = KillPrevious(running_processes, procs, ctx[c].tid)
    /\ Goto(c, "detect")
    /\ UNCHANGED <<ADMIN_ID, tmp, writer, history, ownership, running_processes, fs, now, user_data, last>>

StartDetect(c) ==
    /\ ctx[c].pc = "detect"
    /\ LET tid == ctx[c].tid
           det == DetectFor(World, tid)
           made == MakeDirs(fs, resolve_paths(tid).work_dir)
       IN  IF det.cmd = NoCmd
           THEN Leave(c, "no_entry") /\ UNCHANGED <<ownership, fs>>
           ELSE /\ ownership' = SaveChosenEntry(ownership, tid, det.chosen)
                /\ IF CanOpen(made, log_path_of(tid))
                   THEN /\ fs' = OpenAppend(made, log_path_of(tid))
                        /\ Goto(c, "spawn")
                        /\ UNCHANGED last
                   ELSE fs' = made /\ Leave(c, "raised")
    /\ UNCHANGED <<ADMIN_ID, tmp, writer, history, running_processes, procs, now, user_data>>

StartSpawn(c) ==
    /\ ctx[c].pc = "spawn"
    /\ CanSpawn
    /\ \E spawn_ok \in BOOLEAN :
        IF spawn_ok
        THEN /\ procs' = Spawn(procs, ctx[c].tid)
             /\ ctx' = [ctx EXCEPT ![c].pc = "install",
                                   ![c].pid = Cardinality(DOMAIN procs) + 1]
             /\ UNCHANGED last
        ELSE Leave(c, "spawn_failed") /\ UNCHANGED procs
    /\ UNCHANGED <<ADMIN_ID, tmp, writer, history, ownership, running_processes, fs, now, user_data>>

StartInstall(c) ==
    /\ ctx[c].pc = "install"
    /\ running_processes' = Upsert(running_processes, ctx[c].tid,
                                   [process |-> ctx[c].pid, started_at |-> now])
    /\ Goto(c, "mark")
    /\ UNCHANGED <<ADMIN_ID, tmp, writer, history, ownership, procs, fs, now, user_data, last>>

StartMark(c) ==
    /\ ctx[c].pc = "mark"
    /\ ownership' = set_last_run(ownership, ctx[c].tid, TRUE)
    /\ Leave(c, "started")
    /\ UNCHANGED <<ADMIN_ID, tmp, writer, history, running_processes, procs, fs, now, user_data>>

NextConc ==
    \/ \E p \in 1..MaxProcs : ProcExit(p)
    \/ Tick
    \/ BotUpload
    \/ BotStartBegin
    \/ FlaskSaveBegin
    \/ \E c \in Threads : StartKill(c)
    \/ \E c \in Threads : StartDetect(c)
    \/ \E c \in Threads : StartSpawn(c)
    \/ \E c \in Threads : StartInstall(c)
    \/ \E c \in Threads : StartMark(c)

SpecConc == InitWeb /\ [][NextConc]_vars

(***************************************************************************)
(* bot.py:335-342, auto_start_last_run_apps, called at boot (bot.py:1432-   *)
(* 1436) and by the operator's "Restart ALL last-run" (bot.py:1386-1389).   *)
(* data is the map loaded once at bot.py:336 and tids its keys still to    *)
(* visit; the map of the model keeps no insertion order, the keys are      *)
(* visited in sorted order.  oks: the targets whose Popen succeeds, when   *)
(* the process table has room.  done: the calls made so far.               *)
(***************************************************************************)
RECURSIVE AutoStartFrom(_, _, _, _, _, _)
RECURSIVE AutoStartNext(_, _, _, _, _, _)
\* bot.py:337-338, the loop and its test of last_run
AutoStartFrom(w, data, tids, oks, time, done) ==
    IF tids = <<>> THEN [w |-> w, done |-> done]
    ELSE IF data[Head(tids)].last_run # TRUE
    THEN AutoStartFrom(w, data, Tail(tids), oks, time, done)
    ELSE AutoStartNext(restart_process_background(w, Head(tids),
                           Head(tids) \in oks /\ Cardinality(DOMAIN w.procs) < MaxProcs, time),
                       data, tids, oks, time, done)

\* bot.py:339-342: the call has returned, or raised and was logged
AutoStartNext(r, data, tids, oks, time, done) ==
    AutoStartFrom(r.w, data, Tail(tids), oks, time,
                  Append(done, [tid |-> Head(tids), res |-> r.res]))

\* auto_start_last_run_apps without the test of bot.py:338
auto_start_every_record(w, oks, time) ==
    AutoStartFrom(w, [t \in DOMAIN load_ownership(w.own) |-> [last_run |-> TRUE]],
                  Sorted(DOMAIN load_ownership(w.own)), oks, time, <<>>)

auto_start_last_run_apps(w, oks, time) ==
    AutoStartFrom(w, load_ownership(w.own), Sorted(DOMAIN load_ownership(w.own)),
                  oks, time, <<>>)

\* the world and the record of an auto-start that made the calls r.done
AutoStarted(op, uid, r) ==
    /\ SetWorld(r.w)
    /\ last' = [Op(op, <<>>, uid, "ok") EXCEPT !.paths = r.done]

\* bot.py:1373-1389, admin_callback with "admin_restart_all"
AdminRestartAll ==
    /\ \E uid \in {1, ADMIN_ID}, oks \in SUBSET DOMAIN ownership :
        IF uid # ADMIN_ID
        THEN /\ last' = Op("restart_all", <<>>, uid, "denied")
             /\ UNCHANGED <<ownership, running_processes, procs, fs>>
        ELSE AutoStarted("restart_all", uid, auto_start_last_run_apps(World, oks, now))
    /\ UNCHANGED <<ADMIN_ID, tmp, writer, history, now, user_data, ctx>>

\* bot.py:1423-1436: the service is started again.  It runs as a web service
\* in a container (bot.py:1424) that ends with it: no process is left, and
\* the memory is lost: the registry, the conversations, the threads.
Boot ==
    /\ \E oks \in SUBSET DOMAIN ownership :
        AutoStarted("restart", 0,
                    auto_start_last_run_apps(
                        [World EXCEPT !.reg = <<>>, !.procs = <<>>], oks, now))
    /\ user_data' = [u \in DOMAIN user_data |-> NoUserData]
    /\ ctx' = Idle
    /\ writer' = NoWriter
    /\ UNCHANGED <<ADMIN_ID, tmp, history, now>>

\* bot.py:1423-1436: the service's process alone has ended and is started
\* again on the same host.  The processes it spawned run in sessions of
\* their own (bot.py:308) and go on; the registry that held their handles
\* is lost with the memory.
Respawn ==
    /\ \E oks \in SUBSET DOMAIN ownership :
        AutoStarted("restart", 0,
                    auto_start_last_run_apps([World EXCEPT !.reg = <<>>], oks, now))
    /\ user_data' = [u \in DOMAIN user_data |-> NoUserData]
    /\ ctx' = Idle
    /\ writer' = NoWriter
    /\ UNCHANGED <<ADMIN_ID, tmp, history, now>>

\* receive_file for either chat user: the first upload of a.py
UploadAny ==
    /\ \E uid \in DOMAIN user_data, key \in NewKeys(ownership) :
        /\ <<"u", Str(uid), "|", "a", ".", "py">> \notin DOMAIN ownership
        /\ receive_file(uid, <<"a", ".", "py">>, key)
    /\ UNCHANGED <<ADMIN_ID, tmp, writer, history, running_processes, procs, now, ctx>>

\* both chat users are active
InitBoot ==
    /\ ADMIN_ID = 3
    /\ ownership = <<>>
    /\ running_processes = <<>>
    /\ procs = <<>>
    /\ fs = MakeDirs(<<>>, UPLOAD_DIR)
    /\ now = 0
    /\ user_data = [u \in Users |-> NoUserData]
    /\ last = Op("boot", <<>>, 0, "ok")
    /\ ctx = Idle
    /\ tmp = NoFile
    /\ writer = NoWriter
    /\ history = <<>>

NextBoot ==
    \/ \E p \in 1..MaxProcs : ProcExit(p)
    \/ UploadAny
    \/ RunNow
    \/ StopButton
    \/ AdminRestartAll
    \/ Boot

SpecBoot == InitBoot /\ [][NextBoot]_vars

\* the service started again in place, and as a fresh container
NextOrphan ==
    \/ \E p \in 1..MaxProcs : ProcExit(p)
    \/ UploadAny
    \/ RunNow
    \/ StopButton
    \/ Respawn
    \/ Boot

SpecOrphan == InitBoot /\ [][NextOrphan]_vars

(***************************************************************************)
(* bot.py:83-87, _write_json, statement by statement.  Both threads use    *)
(* the one temporary name ownership.json.tmp and take no lock.             *)
(***************************************************************************)
\* open(path, "w"): _write_json writing the store's file itself
write_open_in_place(file, t) == [file |-> Garbled, tmp |-> t]

\* bot.py:85, open(tmp, "w"): the temporary file exists and is empty
write_open(file, t) == [file |-> file, tmp |-> Garbled]

\* bot.py:86, json.dump and the close: text goes to the file the handle is on
write_dump(file, t, fd, text) ==
    IF fd = "tmp" THEN [file |-> file, tmp |-> text] ELSE [file |-> text, tmp |-> t]

\* bot.py:87, os.replace(tmp, path), for a temporary file that exists
write_replace(file, t) == [file |-> t, tmp |-> NoFile]

\* a thread has loaded the map and computed data, the map it will write
Loads(c, op, tid, data) ==
    writer' = [writer EXCEPT ![c] = [pc |-> "loaded", op |-> op, tid |-> tid,
                                     data |-> data, fd |-> "tmp"]]

\* the caller's operation ends
Finish(c, op, tid, res) ==
    /\ writer' = [writer EXCEPT ![c] = NotWriting]
    /\ last' = Op(op, tid, 0, res)

\* bot.py:953-990, receive_file up to the load of save_ownership_record
UploadBegin ==
    /\ writer["bot"].pc = "idle"
    /\ \E uid \in DOMAIN user_data, key \in NewKeys(ownership) :
        LET user_dir == PathJoin(UPLOAD_DIR, <<Str(uid)>>)
            fname == <<"a", ".", "py">>
            unique_id == <<"u", Str(uid), "|">> \o fname
        IN  /\ unique_id \notin DOMAIN load_ownership(ownership)
            /\ fs' = WriteFile(MakeDirs(fs, user_dir), PathJoin(user_dir, fname), <<"code">>)
            /\ user_data' = [user_data EXCEPT ![uid].target_id = unique_id,
                                              ![uid].file_conv = "WAIT_EXTRAS"]
            /\ Loads("bot", "upload", unique_id,
                     Upsert(load_ownership(ownership), unique_id,
                            [owner |-> uid, type |-> "file", key |-> key,
                             last_run |-> FALSE, entry |-> fname]))
    /\ UNCHANGED <<ADMIN_ID, tmp, history, ownership, running_processes, procs, now, last, ctx>>

\* bot.py:315-325 and 128-129: stop_process up to the load of set_last_run.
\* op is "stop" for the stop_ button, "del_stop" for the del_ button, whose
\* handler goes on to delete_ownership (bot.py:1336-1337).
StopBegin(op) ==
    /\ writer["bot"].pc = "idle"
    /\ \E tid \in DOMAIN load_ownership(ownership) :
        /\ procs' = KillPrevious(running_processes, procs, tid)
        /\ running_processes' = Remove(running_processes, tid)
        /\ Loads("bot", op, tid, set_last_run(ownership, tid, FALSE))
        /\ history' = Upsert(history, tid, "stopping")
    /\ UNCHANGED <<ADMIN_ID, tmp, ownership, fs, now, user_data, last, ctx>>

\* bot.py:262-311 and 128-129: restart_process_background up to the load of
\* set_last_run(target_id, True), called by rerun_ on the bot's thread
\* (bot.py:1294-1301) and by save_code on Flask's (bot.py:872-901), which has
\* written the script before.  The targets here are user files, for which
\* bot.py:288-292 writes nothing.
StartReached(c, tid, r) ==
    /\ running_processes' = r.w.reg
    /\ procs' = r.w.procs
    /\ fs' = r.w.fs
    /\ history' = Upsert(history, tid, "start")
    /\ IF r.res = "started"
       THEN Loads(c, "start", tid, set_last_run(ownership, tid, TRUE)) /\ UNCHANGED last
       ELSE Finish(c, "start", tid, r.res)

StartBegin(c) ==
    /\ writer[c].pc = "idle"
    /\ CanSpawn
    /\ \E tid \in DOMAIN load_ownership(ownership), spawn_ok \in BOOLEAN :
        StartReached(c, tid,
            restart_process_background(
                IF c = "flask"
                THEN [World EXCEPT !.fs = WriteFile(fs, resolve_paths(tid).full_script_path,
                                                    <<"code">>)]
                ELSE World,
                tid, spawn_ok, now))
    /\ UNCHANGED <<ADMIN_ID, tmp, ownership, now, user_data, ctx>>

\* bot.py:85
WOpen(c) ==
    /\ writer[c].pc = "loaded"
    /\ ownership' = write_open(ownership, tmp).file
    /\ tmp' = write_open(ownership, tmp).tmp
    /\ writer' = [writer EXCEPT ![c].pc = "opened", ![c].fd = "tmp"]
    /\ UNCHANGED <<ADMIN_ID, history, running_processes, procs, fs, now, user_data, last, ctx>>

\* what the file holds once this writer's text is in it: the text, or, when
\* another writer's text went into the same file since it was truncated,
\* possibly a mix of the two
Texts(content, data) == IF content = Garbled THEN {data} ELSE {data, Garbled}

\* bot.py:86
WDump(c) ==
    /\ writer[c].pc = "opened"
    /\ \E text \in Texts(IF writer[c].fd = "tmp" THEN tmp ELSE ownership, writer[c].data) :
        /\ ownership' = write_dump(ownership, tmp, writer[c].fd, text).file
        /\ tmp' = write_dump(ownership, tmp, writer[c].fd, text).tmp
    /\ writer' = [writer EXCEPT ![c].pc = "written"]
    /\ UNCHANGED <<ADMIN_ID, history, running_processes, procs, fs, now, user_data, last, ctx>>

\* where the caller of _write_json goes on once the store's file is file:
\* the del_ button's handler calls delete_ownership (bot.py:1337, 116-120),
\* every other caller is done
Continues(w, file) ==
    IF w.op = "del_stop" /\ w.tid \in DOMAIN load_ownership(file)
    THEN [w EXCEPT !.pc = "loaded", !.op = "delete", !.fd = "tmp",
                   !.data = delete_ownership(file, w.tid)]
    ELSE NotWriting

\* the answer of the operation that ends with this _write_json
Ended(w) ==
    IF w.op = "start" THEN "started"
    ELSE IF w.op = "stop" THEN "stopped"
    ELSE IF w.op = "upload" THEN "saved"
    ELSE "deleted"

\* bot.py:87.  The temporary file may be gone, renamed by the other thread:
\* os.replace raises, which bot.py:312 catches for a Start and no one for
\* the other callers.  A file renamed while the other thread has it open
\* stays open under its new name.
WReplace(c) ==
    /\ writer[c].pc = "written"
    /\ IF tmp = NoFile
       THEN /\ Finish(c, writer[c].op, writer[c].tid, "raised")
            /\ history' = IF writer[c].op = "start"
                          THEN Upsert(history, writer[c].tid, "start")
                          ELSE history
            /\ UNCHANGED <<ownership, tmp, fs>>
       ELSE /\ ownership' = write_replace(ownership, tmp).file
            /\ tmp' = write_replace(ownership, tmp).tmp
            /\ writer' = [d \in Threads |->
                  IF d = c THEN Continues(writer[c], tmp)
                  ELSE IF writer[d].pc = "opened" /\ writer[d].fd = "tmp"
                  THEN [writer[d] EXCEPT !.fd = "main"]
                  ELSE writer[d]]
            /\ IF Continues(writer[c], tmp) = NotWriting
               THEN last' = Op(writer[c].op, writer[c].tid, 0, Ended(writer[c]))
               ELSE UNCHANGED last
            /\ history' = IF /\ writer[c].op \in {"stop", "del_stop"}
                             /\ history[writer[c].tid] = "stopping"
                          THEN Upsert(history, writer[c].tid, "stop")
                          ELSE IF writer[c].op = "start"
                          THEN Upsert(history, writer[c].tid, "start")
                          ELSE history
            /\ fs' = IF writer[c].op \in {"delete", "del_stop"}
                        /\ Continues(writer[c], tmp) = NotWriting
                     THEN RemoveFile(fs, resolve_paths(writer[c].tid).full_script_path)
                     ELSE fs
    /\ UNCHANGED <<ADMIN_ID, running_processes, procs, now, user_data, ctx>>

\* the targets of the two chat users
StoreTids == {<<"u", Str(uid), "|", "a", ".", "py">> : uid \in Users}

\* the read that hands on whatever the file holds
ReadStoreRaw ==
    /\ \E tid \in StoreTids :
        LET data == ownership
            found == tid \in DOMAIN data
        IN  last' = [Op("read", tid, 0, "ok") EXCEPT
                        !.paths = [data |-> data,
                                   owner |-> get_owner(ownership, tid),
                                   key |-> get_app_key(ownership, tid),
                                   last_run |-> IF found THEN <<data[tid].last_run>> ELSE <<>>,
                                   entry |-> IF found THEN <<data[tid].entry>> ELSE <<>>]]
    /\ UNCHANGED <<ADMIN_ID, tmp, writer, history, ownership, running_processes, procs,
                   fs, now, user_data, ctx>>

\* bot.py:108-126 and 273-274, 338: a reader loads the store and looks up a
\* target's owner, key, last_run and entry; <<>> stands for None
ReadStore ==
    /\ \E tid \in StoreTids :
        LET data == load_ownership(ownership)
            found == tid \in DOMAIN data
        IN  last' = [Op("read", tid, 0, "ok") EXCEPT
                        !.paths = [data |-> data,
                                   owner |-> get_owner(ownership, tid),
                                   key |-> get_app_key(ownership, tid),
                                   last_run |-> IF found THEN <<data[tid].last_run>> ELSE <<>>,
                                   entry |-> IF found THEN <<data[tid].entry>> ELSE <<>>]]
    /\ UNCHANGED <<ADMIN_ID, tmp, writer, history, ownership, running_processes, procs,
                   fs, now, user_data, ctx>>

\* the operator's restart-all, a handler of the bot's thread
BotRestartAll == writer["bot"].pc = "idle" /\ AdminRestartAll

\* two threads mutate the store
NextStore ==
    \/ UploadBegin
    \/ StopBegin("stop")
    \/ \E c \in Threads : StartBegin(c)
    \/ \E c \in Threads : WOpen(c)
    \/ \E c \in Threads : WDump(c)
    \/ \E c \in Threads : WReplace(c)
    \/ BotRestartAll

SpecStore == InitBoot /\ [][NextStore]_vars

\* one thread mutates the store, next to readers and restarts of the service
NextAtomic ==
    \/ \E p \in 1..MaxProcs : ProcExit(p)
    \/ UploadBegin
    \/ StopBegin("stop")
    \/ StopBegin("del_stop")
    \/ StartBegin("bot")
    \/ WOpen("bot")
    \/ WDump("bot")
    \/ WReplace("bot")
    \/ ReadStore
    \/ Boot

SpecAtomic == Init /\ [][NextAtomic]_vars

(***************************************************************************)
(* The store's file damaged from outside, and the service left to itself.  *)
(***************************************************************************)
\* ownership.json no longer parses, or can no longer be read: json.load or
\* open raises inside the try of bot.py:77-81
Corrupt ==
    /\ ownership # Garbled
    /\ ownership' = Garbled
    /\ last' = Op("corrupt", <<>>, 0, "ok")
    /\ UNCHANGED <<ADMIN_ID, tmp, writer, history, running_processes, procs, fs, now,
                   user_data, ctx>>

NextCorrupt ==
    \/ UploadAny
    \/ RunNow
    \/ Corrupt
    \/ ReadStore

SpecCorrupt == Init /\ [][NextCorrupt]_vars

\* bot.py:1423-1497: once the service is up, nothing runs but the handlers of
\* the chat users' and the web's requests; time passes
NextHeal ==
    \/ \E p \in 1..MaxProcs : ProcExit(p)
    \/ Tick
    \/ UploadAny
    \/ RunNow
    \/ StopButton
    \/ AdminRestartAll

SpecHeal == Init /\ [][NextHeal]_vars /\ WF_vars(Tick)

(***************************************************************************)
(* bot.py:250-260, build_env.  The environment is a map from names to      *)
(* values; environ is os.environ, the environment of the service.          *)
(***************************************************************************)
RECURSIVE BuildEnvLines(_, _)
BuildEnvLines(lines, custom_env) ==
    IF lines = <<>> THEN custom_env
    ELSE LET l == Strip(Head(lines)) IN
         IF l = <<>> \/ Head(l) = "#" \/ ~Has(l, "=")
         THEN BuildEnvLines(Tail(lines), custom_env)
         ELSE BuildEnvLines(Tail(lines),
                Upsert(custom_env, Strip(SplitFirst(l, "=")[1]),
                       StripChars(StripChars(Strip(SplitFirst(l, "=")[2]), "\""), "'")))

\* build_env in which a name of os.environ keeps its inherited value
build_env_inherited_wins(f, env_path, environ) ==
    IF ~Exists(f, env_path) THEN environ
    ELSE LET file == BuildEnvLines(Split(f[AbsPath(env_path)].data, "\n"), <<>>)
         IN  [k \in DOMAIN file \cup DOMAIN environ |->
                 IF k \in DOMAIN environ THEN environ[k] ELSE file[k]]

build_env(f, env_path, environ) ==
    IF ~Exists(f, env_path) THEN environ
    ELSE BuildEnvLines(Split(f[AbsPath(env_path)].data, "\n"), environ)

\* os.environ of the service: it defines a and p
Environ == (<<"a">> :> <<"h">>) @@ (<<"p">> :> <<"h">>)

\* lines of an env file: assignments, with and without blanks around the
\* name and the value, a blank line, a comment, a line without "="
SimpleLines ==
    {<<"a", "=", "x">>, <<"a", "=", "m">>, <<"b", "=", "m">>,
     <<" ", "a", " ", "=", " ", "m", " ">>, <<>>, <<"#", "a", "=", "m">>, <<"a">>}

EnvPathOf(tid) == resolve_paths(tid).env_path

\* the text of the tenant's .env file, empty when there is none
EnvText == IF Exists(fs, EnvPathOf(TFile)) THEN fs[AbsPath(EnvPathOf(TFile))].data ELSE <<>>

\* bot.py:886-888: save_code writes .env again, with the text it is given
WriteEnv(text) ==
    /\ fs' = WriteFile(MakeDirs(fs, resolve_paths(TFile).work_dir), EnvPathOf(TFile), text)
    /\ last' = Op("put", TFile, 0, "ok")
    /\ UNCHANGED <<ADMIN_ID, tmp, writer, history, ownership, running_processes, procs,
                   now, user_data, ctx>>

\* the text is the file's and one more line
AddLine(line) ==
    /\ \A i \in 1..Len(Split(EnvText, "\n")) : Split(EnvText, "\n")[i] \in SimpleLines
    /\ Len(Split(EnvText, "\n")) < MaxEnvLines
    /\ WriteEnv(IF Exists(fs, EnvPathOf(TFile)) THEN EnvText \o <<"\n">> \o line ELSE line)

\* the text is one assignment, with one more character in its value: a
\* quote character or a letter
AddQuoted(c) ==
    /\ Len(EnvText) < MaxQuoted + 2
    /\ \/ ~Exists(fs, EnvPathOf(TFile))
       \/ /\ StartsWith(EnvText, <<"a", "=">>)
          /\ \A i \in 3..Len(EnvText) : EnvText[i] \in {"\"", "'", "x"}
    /\ WriteEnv(IF Exists(fs, EnvPathOf(TFile)) THEN EnvText \o <<c>> ELSE <<"a", "=", c>>)

\* bot.py:295: one call of build_env(env_path); the environment is kept
BuildEnv ==
    /\ last' = [Op("build_env", TFile, 0, "ok")
                  EXCEPT !.paths = build_env(fs, EnvPathOf(TFile), Environ)]
    /\ UNCHANGED <<ADMIN_ID, tmp, writer, history, ownership, running_processes, procs,
                   fs, now, user_data, ctx>>

NextEnv ==
    \/ \E line \in SimpleLines : AddLine(line)
    \/ \E c \in {"\"", "'", "x"} : AddQuoted(c)
    \/ BuildEnv

SpecEnv == Init /\ [][NextEnv]_vars

(***************************************************************************)
(* The env requests of the web, with names of every shape env_save_api     *)
(* accepts: plain, holding "=", starting with "#"; and the empty one.      *)
(***************************************************************************)
MapKeys == {<<"a">>, <<"b">>, <<"a", "=", "b">>, <<"#", "a">>, <<>>}

MapValues == {<<"x">>, <<"m">>}

\* what /api/env answers for the tenant's target: parse_env_file(env_path)
EnvGet(f) == parse_env_file(f, EnvPathOf(TFile))

\* POST /api/env_save; the value sent is kept with the request
EnvSet ==
    \E uid \in {1, ADMIN_ID}, k \in MapKeys, v \in MapValues :
        /\ SetWorld(env_save_api(World, TFile, uid, k, v).w)
        /\ last' = [Op("env_save", TFile, uid, env_save_api(World, TFile, uid, k, v).res)
                      EXCEPT !.name = k, !.paths = v]
        /\ UNCHANGED <<ADMIN_ID, tmp, writer, history, now, user_data, ctx>>

\* POST /api/env_delete
EnvDel ==
    \E uid \in {1, ADMIN_ID}, k \in MapKeys :
        Web("env_delete", TFile, uid, k, env_delete_api(World, TFile, uid, k))

\* GET /api/env; the map answered is kept
EnvRead ==
    \E uid \in {1, ADMIN_ID} :
        /\ last' = [Op("env", TFile, uid, env_api(World, TFile, uid).res)
                      EXCEPT !.paths = IF env_api(World, TFile, uid).res = "env"
                                       THEN EnvGet(fs) ELSE <<>>]
        /\ UNCHANGED <<ADMIN_ID, tmp, writer, history, ownership, running_processes,
                       procs, fs, now, user_data, ctx>>

NextEnvMap ==
    \/ EnvSet
    \/ EnvDel
    \/ EnvRead

SpecEnvMap == Init /\ [][NextEnvMap]_vars

(***************************************************************************)
(* The log files.  A process writes to the log of its target, which Start  *)
(* opened for append and gave it as stdout and stderr (bot.py:299-306).     *)
(***************************************************************************)
\* a process that has not exited writes a line: it is appended
ProcWrite(p) ==
    /\ p \in DOMAIN procs
    /\ procs[p].st # "exited"
    /\ Exists(fs, log_path_of(procs[p].tid))
    /\ Len(fs[AbsPath(log_path_of(procs[p].tid))].data) < MaxLog
    /\ fs' = WriteFile(fs, log_path_of(procs[p].tid),
                       fs[AbsPath(log_path_of(procs[p].tid))].data \o <<"l">>)
    /\ last' = Op("write", procs[p].tid, 0, "ok")
    /\ UNCHANGED <<ADMIN_ID, tmp, writer, history, ownership, running_processes, procs,
                   now, user_data, ctx>>

\* bot.py:327-333: the file is opened with "w" and nothing is written
clear_log(f, target_id) ==
    IF CanOpen(f, log_path_of(target_id)) THEN WriteFile(f, log_path_of(target_id), <<>>)
    ELSE f

\* bot.py:1302-1308, clrlog_
ClearLogButton ==
    /\ \E uid \in ChatUsers, tid \in ButtonTids :
        IF Denied(uid, tid)
        THEN /\ last' = Op("button", <<>>, 0, "denied")
             /\ fs' = fs
        ELSE /\ fs' = clear_log(fs, tid)
             /\ last' = Op("clear_log", tid, uid, "ok")
    /\ UNCHANGED <<ADMIN_ID, tmp, writer, history, ownership, running_processes, procs,
                   now, user_data, ctx>>

\* bot.py:1391-1394: clear_log for every key of the store
RECURSIVE ClearLogs(_, _)
ClearLogs(f, tids) ==
    IF tids = <<>> THEN f ELSE ClearLogs(clear_log(f, Head(tids)), Tail(tids))

\* bot.py:1373-1377, 1391-1394, admin_callback with "admin_clear_logs"
AdminClearLogs ==
    /\ \E uid \in {1, ADMIN_ID} :
        IF uid # ADMIN_ID
        THEN /\ last' = Op("clear_logs", <<>>, uid, "denied")
             /\ fs' = fs
        ELSE /\ fs' = ClearLogs(fs, Sorted(DOMAIN load_ownership(ownership)))
             /\ last' = Op("clear_logs", <<>>, uid, "ok")
    /\ UNCHANGED <<ADMIN_ID, tmp, writer, history, ownership, running_processes, procs,
                   now, user_data, ctx>>

NextLog ==
    \/ \E p \in 1..MaxProcs : ProcExit(p)
    \/ \E p \in 1..MaxProcs : ProcWrite(p)
    \/ UploadAny
    \/ RunNow
    \/ Rerun
    \/ StopButton
    \/ DeleteButton
    \/ ClearLogButton
    \/ AdminClearLogs

SpecLog == Init /\ [][NextLog]_vars

(***************************************************************************)
(* The two flows that call Start and answer their caller: execute_logic in *)
(* the chat and save_code on the web.                                      *)
(***************************************************************************)
NextReport ==
    \/ \E p \in 1..MaxProcs : ProcExit(p)
    \/ UploadAny
    \/ RunNow
    \/ Rerun
    \/ StopButton
    \/ SaveCode(OwnNames)

SpecReport == Init /\ [][NextReport]_vars

(***************************************************************************)
(* Start of repository targets: the repository holds a script, or a        *)
(* package manifest with a start script next to index.js.                  *)
(***************************************************************************)
EntryLayouts ==
    { (<<"m", ".", "py">> :> <<"code">>),
      (<<"package", ".", "json">> :> <<"start">>) @@ (<<"index", ".", "js">> :> <<"code">>) }

\* bot.py:1095-1129, receive_git_url of one of these repositories, the first
\* the user clones
CloneEntry ==
    /\ 2 \in DOMAIN user_data
    /\ user_data[2].repo_name = None
    /\ \E layout \in EntryLayouts, key \in NewKeys(ownership) :
        receive_git_url(2, layout, key, TRUE)
    /\ UNCHANGED <<ADMIN_ID, tmp, writer, history, running_processes, procs, now, ctx>>

NextEntry ==
    \/ \E p \in 1..MaxProcs : ProcExit(p)
    \/ UploadAny
    \/ RunNow
    \/ CloneEntry
    \/ SelectGitFile
    \/ Rerun

SpecEntry == Init /\ [][NextEntry]_vars

(***************************************************************************)
(* The read paths that poll a process handle: /status, /api/app_stats,     *)
(* /list, the manage view and /stats.                                      *)
(***************************************************************************)
\* bot.py:907-928: "running" of the answer; the registry is read only
app_stats_api(w, tid, uid) ==
    IF AccessDenied(w, tid, uid) THEN Answer(w, "denied", {})
    ELSE IF is_running(w.reg, w.procs, tid) THEN Answer(w, "running", {})
    ELSE Answer(w, "not_running", {})

AppStats ==
    \E tid \in WebTids, uid \in WebUids :
        Web("app_stats", tid, uid, <<>>, app_stats_api(World, tid, uid))

\* bot.py:1213-1233, /list: the targets shown to uid with the green label
list_hosted(w, uid) ==
    {tid \in DOMAIN load_ownership(w.own) :
        /\ uid = ADMIN_ID \/ uid = load_ownership(w.own)[tid].owner
        /\ is_running(w.reg, w.procs, tid)}

ListHosted ==
    /\ \E uid \in ChatUsers \cup {ADMIN_ID} :
        last' = [Op("list", <<>>, uid, "listed") EXCEPT !.touched = list_hosted(World, uid)]
    /\ UNCHANGED <<ADMIN_ID, tmp, writer, history, ownership, running_processes, procs, fs, now, user_data, ctx>>

\* bot.py:1235-1238, the status line of the manage view
app_manage_buttons(w, tid) ==
    IF is_running(w.reg, w.procs, tid) THEN "running" ELSE "stopped"

\* bot.py:1276-1283, man_
ManageView ==
    /\ \E uid \in ChatUsers, tid \in ButtonTids :
        last' = IF Denied(uid, tid) THEN Op("button", <<>>, 0, "denied")
                ELSE Op("manage", tid, uid, app_manage_buttons(World, tid))
    /\ UNCHANGED <<ADMIN_ID, tmp, writer, history, ownership, running_processes, procs, fs, now, user_data, ctx>>

\* bot.py:1356-1361, /stats: the registry's targets counted as running
server_stats(w) == {tid \in DOMAIN w.reg : Polls(w.procs, w.reg[tid].process)}

ServerStats ==
    /\ last' = [Op("stats", <<>>, 0, "counted") EXCEPT !.touched = server_stats(World)]
    /\ UNCHANGED <<ADMIN_ID, tmp, writer, history, ownership, running_processes, procs, fs, now, user_data, ctx>>

NextPoll ==
    \/ \E p \in 1..MaxProcs : ProcExit(p)
    \/ ReceiveFile
    \/ RunNow
    \/ StopButton
    \/ Status
    \/ AppStats
    \/ ListHosted
    \/ ManageView
    \/ ServerStats

SpecPoll == InitWeb /\ [][NextPoll]_vars

(***************************************************************************)
(* resolve_run_command on its own, in the work_dir of a repository whose   *)
(* files the web editor writes one by one.                                 *)
(***************************************************************************)
DetectDir == PathJoin(UPLOAD_DIR, <<"r">>)

\* the names written: the candidates, a file only the walk finds, and the
\* package manifest, with and without a start script
DetectFiles ==
    {<<candidates[i], <<>>>> : i \in 1..Len(candidates)}
        \cup {<<<<"a", ".", "py">>, <<>>>>,
              <<<<"package", ".", "json">>, <<"start">>>>,
              <<<<"package", ".", "json">>, <<>>>>}

\* the script_rel values passed: None, the empty string, and paths with and
\* without an extension
ScriptRels ==
    {None, <<>>, <<"a", ".", "js">>, <<"a", ".", "JS">>, <<"a", ".", "py">>,
     <<"a", ".", "sh">>, <<"js">>, <<"sh">>, <<"a">>}

\* bot.py:886-888: save_code writes the file into work_dir
PutFile(name, data) ==
    /\ fs' = WriteFile(MakeDirs(fs, DetectDir), PathJoin(DetectDir, name), data)
    /\ last' = Op("put", <<>>, 0, "ok")
    /\ UNCHANGED <<ADMIN_ID, tmp, writer, history, ownership, running_processes, procs,
                   now, user_data, ctx>>

\* one call of resolve_run_command(work_dir, script_rel); the answer is kept
Detect(script_rel) ==
    /\ last' = [Op("detect", <<>>, 0, "ok")
                  EXCEPT !.name = script_rel,
                         !.paths = resolve_run_command(fs, DetectDir, script_rel)]
    /\ UNCHANGED <<ADMIN_ID, tmp, writer, history, ownership, running_processes, procs,
                   fs, now, user_data, ctx>>

NextDetect ==
    \/ \E nd \in DetectFiles : PutFile(nd[1], nd[2])
    \/ \E script_rel \in ScriptRels : Detect(script_rel)

SpecDetect == Init /\ [][NextDetect]_vars

(***************************************************************************)
(* The fallback walk of resolve_run_command, in the work_dir of a          *)
(* repository that holds files of a .git and a node_modules directory, at  *)
(* its top and below a subdirectory.                                       *)
(***************************************************************************)
WalkFiles ==
    {<<"a", ".", "pyc">>, <<"b", ".", "txt">>, <<"b", ".", "sh">>,
     <<".", "git", "/", "a", ".", "py">>, <<"node_modules", "/", "a", ".", "js">>,
     <<"d", "/", "node_modules", "/", "a", ".", "js">>,
     <<"d", "/", ".", "git", "/", "a", ".", "sh">>,
     <<"d", "/", "a", ".", "py">>}

\* bot.py:886-888: a file written below work_dir, its directory made first
PutTree(name) ==
    /\ fs' = WriteFile(MakeDirs(fs, DirName(PathJoin(DetectDir, name))),
                       PathJoin(DetectDir, name), <<"code">>)
    /\ last' = Op("put", <<>>, 0, "ok")
    /\ UNCHANGED <<ADMIN_ID, tmp, writer, history, ownership, running_processes, procs,
                   now, user_data, ctx>>

NextWalk ==
    \/ \E name \in WalkFiles : PutTree(name)
    \/ Detect(None)

SpecWalk == Init /\ [][NextWalk]_vars

(***************************************************************************)
(* resolve_paths on its own: every identifier of at most MaxIdLen tokens.  *)
(***************************************************************************)
IdAlphabet == {"u", "1", "|", "/", ".", "a"}

TargetIds == UNION {[1..n -> IdAlphabet] : n \in 0..MaxIdLen}

\* one call in a behaviour
ResolvePaths(target_id) ==
    /\ last.op = "boot"
    /\ last' = [Op("resolve_paths", target_id, 0, "ok")
                  EXCEPT !.paths = resolve_paths(target_id)]
    /\ UNCHANGED <<ADMIN_ID, tmp, writer, history, ownership, running_processes, procs, fs, now, user_data, ctx>>

NextPaths == \E target_id \in TargetIds : ResolvePaths(target_id)

SpecPaths == Init /\ [][NextPaths]_vars

(***************************************************************************)
(* The log file's path on its own: every pair of short identifiers made of *)
(* a name, the bar and the underscore.                                     *)
(***************************************************************************)
LogIds == UNION {[1..n -> {"a", "|", "_"}] : n \in 1..(MaxIdLen - 1)}

\* bot.py:298, 328, 498: the log paths of two targets, kept side by side
LogPaths(tid, other) ==
    /\ last.op = "boot"
    /\ last' = [Op("log_path", tid, 0, "ok")
                  EXCEPT !.name = other,
                         !.paths = <<log_path_of(tid), log_path_of(other)>>]
    /\ UNCHANGED <<ADMIN_ID, tmp, writer, history, ownership, running_processes, procs, fs, now, user_data, ctx>>

NextLogPaths == \E tid \in LogIds, other \in LogIds : LogPaths(tid, other)

SpecLogPaths == Init /\ [][NextLogPaths]_vars

(***************************************************************************)
(* within_dir on its own: every pair of short paths.                      *)
(***************************************************************************)
PathAlphabet == {"/", ".", "a"}

PathStrings(n) == UNION {[1..k -> PathAlphabet] : k \in 0..n}

\* one call in a behaviour: the answer is kept as "true" or "false"
WithinDir(base, p) ==
    /\ last.op = "boot"
    /\ last' = [Op("within_dir", base, 0, IF within_dir(base, p) THEN "true" ELSE "false")
                  EXCEPT !.name = p]
    /\ UNCHANGED <<ADMIN_ID, tmp, writer, history, ownership, running_processes, procs, fs, now, user_data, ctx>>

NextWithin ==
    \E base \in PathStrings(MaxIdLen - 1), p \in PathStrings(MaxIdLen) : WithinDir(base, p)

SpecWithin == Init /\ [][NextWithin]_vars

(***************************************************************************)
(* Properties of the supervisor.                                           *)
(***************************************************************************)
\* the processes of target tid that have not exited
Live(tid) == {p \in DOMAIN procs : procs[p].tid = tid /\ procs[p].st # "exited"}

HasRecord(tid) == tid \in DOMAIN load_ownership(ownership)

\* C1: two Starts in a row on one target, each of which spawned, leave exactly
\* one live process of that target.
C1_StartTwiceOneLive ==
    [][(/\ last.op = "start" /\ last.res = "started"
        /\ last'.op = "start" /\ last'.res = "started"
        /\ last'.tid = last.tid)
       => Cardinality({p \in DOMAIN procs' : procs'[p].tid = last'.tid
                                             /\ procs'[p].st # "exited"}) = 1]_vars

\* C3: after Stop(id) the registry holds no entry of id and the record of id,
\* if there is one, has last_run = FALSE; a second Stop(id) right after it
\* changes neither the registry nor the store.
C3_StopIdempotent ==
    /\ [](last.op = "stop" /\ last.res = "stopped"
          => /\ last.tid \notin DOMAIN running_processes
             /\ (HasRecord(last.tid) => ~ownership[last.tid].last_run))
    /\ [][(/\ last.op = "stop" /\ last.res = "stopped"
           /\ last'.op = "stop" /\ last'.res = "stopped"
           /\ last'.tid = last.tid)
          => (running_processes' = running_processes /\ ownership' = ownership)]_vars

\* C3's case: a Stop has removed the entry of a target whose process had exited
C3_Witness ==
    /\ last.op = "stop" /\ last.res = "stopped"
    /\ HasRecord(last.tid)
    /\ \E p \in DOMAIN procs : procs[p].tid = last.tid /\ procs[p].st = "exited"

\* C4: after a Start that spawned, the registry's entry of the target holds the
\* new process, which is alive, and the time of the start, and the record of
\* the target, if there is one, has last_run = TRUE.
C4_StartInstallsEntry ==
    last.op = "start" /\ last.res = "started"
    => /\ last.tid \in DOMAIN running_processes
       /\ running_processes[last.tid].process = Cardinality(DOMAIN procs)
       /\ procs[running_processes[last.tid].process] = [tid |-> last.tid, st |-> "alive"]
       /\ running_processes[last.tid].started_at = now
       /\ (HasRecord(last.tid) => ownership[last.tid].last_run)

\* C4's case: a second process has been spawned for a target with a record
C4_Witness ==
    /\ last.op = "start" /\ last.res = "started"
    /\ HasRecord(last.tid)
    /\ running_processes[last.tid].process = 2

\* C5: after a Start that launched nothing (no runnable entry, or the spawn
\* failed), the record of the target has last_run = TRUE.
C5_FailedStartDesired ==
    last.op = "start" /\ last.res \in {"no_entry", "spawn_failed"} /\ HasRecord(last.tid)
    => ownership[last.tid].last_run

\* C6: the key of a record never changes while the record exists.
C6_KeyImmutable ==
    [][\A tid \in DOMAIN ownership \cap DOMAIN ownership' :
          ownership'[tid].key = ownership[tid].key]_vars

\* p, with its '.' and '..' segments resolved, is the uploads root or below it
InsideUploads(p) ==
    LET root == NormPath(PathJoin(CWD, UPLOAD_DIR))
        q == NormPath(PathJoin(CWD, p))
    IN  q = root \/ StartsWith(q, root \o <<"/">>)

\* C9: every path resolve_paths returns (work_dir, env_path, req_path,
\* full_script_path), once normalised, lies inside the uploads root.
C9_PathsInsideUploads ==
    last.op = "resolve_paths"
    => /\ InsideUploads(last.paths.work_dir)
       /\ InsideUploads(last.paths.env_path)
       /\ InsideUploads(last.paths.req_path)
       /\ InsideUploads(last.paths.full_script_path)

\* the token is the key of the record of the target
TokenMatches(tid, key) == HasRecord(tid) /\ key # NoKey /\ key = ownership[tid].key

\* C7: the status query answers "running" or "stopped" only for the token of
\* the target's record, and then "running" exactly when the target is alive;
\* for any other token (an empty one, a target with no record) it answers
\* "forbidden", whether or not the target is alive.
C7_StatusByToken ==
    last.op = "status"
    => IF TokenMatches(last.tid, last.key)
       THEN last.res = (IF is_running(running_processes, procs, last.tid)
                        THEN "running" ELSE "stopped")
       ELSE last.res = "forbidden"

\* C7 as amended: the same for a non-empty target id; a query with an empty
\* target id is answered "specify_script" whatever the token.
C7_StatusByTokenNamed ==
    last.op = "status"
    => IF last.tid = <<>> THEN last.res = "specify_script"
       ELSE IF TokenMatches(last.tid, last.key)
       THEN last.res = (IF is_running(running_processes, procs, last.tid)
                        THEN "running" ELSE "stopped")
       ELSE last.res = "forbidden"

\* C7's case: a wrong, non-empty token for a target whose process is alive
C7_Witness ==
    /\ last.op = "status" /\ last.res = "forbidden"
    /\ HasRecord(last.tid) /\ last.key # NoKey
    /\ is_running(running_processes, procs, last.tid)

WebOps == {"logs", "files", "create_file", "env", "env_save", "env_delete", "editor",
           "save_code"}

\* C8: a log, env or file request of a caller who is neither the owner of the
\* target nor the operator is rejected and changes neither the files, nor the
\* registry, nor the store, nor any process.
C8_OnlyOwnerOrOperator ==
    [][(/\ last'.op \in WebOps
        /\ last'.uid # ADMIN_ID
        /\ <<last'.uid>> # get_owner(ownership, last'.tid))
       => (/\ last'.res = "denied"
           /\ last'.touched = {}
           /\ fs' = fs
           /\ running_processes' = running_processes
           /\ ownership' = ownership
           /\ procs' = procs)]_vars

\* C8's case: a request without identity for a target nobody owns, refused
C8_Witness ==
    /\ last.op \in WebOps /\ last.res = "denied"
    /\ last.uid = 0 /\ ~HasRecord(last.tid)

\* name, joined to the workspace of tid and normalised, is outside the workspace
Escapes(tid, name) ==
    LET root == NormPath(PathJoin(CWD, resolve_paths(tid).work_dir))
        q == NormPath(PathJoin(CWD, PathJoin(resolve_paths(tid).work_dir, name)))
    IN  ~(q = root \/ StartsWith(q, root \o <<"/">>))

\* C10: a file create, read or write request whose path escapes the workspace
\* is rejected before any directory or file is created, read or written.
C10_EscapeRejected ==
    [][(/\ last'.op \in {"create_file", "editor", "save_code"}
        /\ Escapes(last'.tid, last'.name))
       => (/\ last'.res \in {"denied", "invalid_name", "security_block"}
           /\ last'.touched = {}
           /\ fs' = fs)]_vars

\* C10's case: the owner's write to ../x, refused
C10_Witness ==
    /\ last.op = "save_code" /\ last.res = "security_block"
    /\ <<last.uid>> = get_owner(ownership, last.tid)
    /\ Escapes(last.tid, last.name)

\* C2: at most one Start of a target is in flight at a time, no target has two
\* live processes, and every live process is the one the registry holds for
\* its target.
C2_OneStartInFlight ==
    /\ ~(/\ ctx["bot"].pc # "idle" /\ ctx["flask"].pc # "idle"
         /\ ctx["bot"].tid = ctx["flask"].tid)
    /\ \A tid \in WebTids : Cardinality(Live(tid)) <= 1
    /\ \A p \in DOMAIN procs :
          (procs[p].st # "exited" /\ \A c \in Threads : ctx[c].pid # p)
          => /\ procs[p].tid \in DOMAIN running_processes
             /\ running_processes[procs[p].tid].process = p

\* the directories above the normalised absolute path q, nearest first
RECURSIVE ProperAncestors(_)
ProperAncestors(q) ==
    IF DirName(q) = q \/ DirName(q) = <<>> THEN {}
    ELSE {DirName(q)} \cup ProperAncestors(DirName(q))

\* C11: within_dir(base, p) answers true exactly when the normalised absolute
\* form of p is that of base or has it as a proper ancestor directory.
C11_WithinDirExact ==
    last.op = "within_dir"
    => (last.res = "true"
        <=> \/ AbsPath(last.name) = AbsPath(last.tid)
            \/ AbsPath(last.tid) \in ProperAncestors(AbsPath(last.name)))

\* the three kinds of identifier, by the text of the identifier alone
KindOf(s) ==
    IF ~Has(s, "|") THEN "Legacy"
    ELSE IF /\ Count(s, "|") = 1 /\ Head(s) = "u" /\ Find(s, "|") > 2
            /\ \A i \in 2..(Find(s, "|") - 1) : s[i] \in Digits
         THEN "UserFile"
    ELSE "Repo"

\* the work_dir each kind's branch of resolve_paths gives
WorkDirOf(s) ==
    IF KindOf(s) = "Legacy" THEN UPLOAD_DIR
    ELSE IF KindOf(s) = "UserFile" THEN PathJoin(UPLOAD_DIR, SubSeq(s, 2, Find(s, "|") - 1))
    ELSE PathJoin(UPLOAD_DIR, SubSeq(s, 1, Find(s, "|") - 1))

\* C12: every identifier is of exactly one kind: is_user_file_id and
\* is_repo_id are never both true, neither is true exactly when the identifier
\* holds no '|', and resolve_paths takes the branch of that kind.
C12_ExactlyOneKind ==
    last.op = "resolve_paths"
    => /\ ~(is_user_file_id(last.tid) /\ is_repo_id(last.tid))
       /\ (~is_user_file_id(last.tid) /\ ~is_repo_id(last.tid)) <=> ~Has(last.tid, "|")
       /\ is_user_file_id(last.tid) <=> KindOf(last.tid) = "UserFile"
       /\ is_repo_id(last.tid) <=> KindOf(last.tid) = "Repo"
       /\ last.paths.work_dir = WorkDirOf(last.tid)
       /\ last.paths.script_path =
             (IF KindOf(last.tid) = "Legacy" THEN last.tid
              ELSE SubSeq(last.tid, Find(last.tid, "|") + 1, Len(last.tid)))
       /\ KindOf(last.tid) = "Legacy"
          <=> last.paths.env_path = PathJoin(UPLOAD_DIR, last.tid \o <<".", "env">>)

\* resolve_paths was applied to an identifier that begins like a user file's
\* and holds two '|': a repository identifier
C12_Witness ==
    /\ last.op = "resolve_paths"
    /\ is_repo_id(last.tid)
    /\ Count(last.tid, "|") = 2
    /\ StartsWith(last.tid, <<"u", "1", "|">>)

\* C13: the slug of an identifier classified as a repository, the text before
\* its first '|', is never 'u' followed by digits.
C13_RepoSlugNotUserPrefix ==
    (last.op = "resolve_paths" /\ is_repo_id(last.tid))
    => LET slug == SplitFirst(last.tid, "|")[1]
       IN  ~(StartsWith(slug, <<"u">>) /\ IsDigit(Tail(slug)))

\* C17: an auto-start calls Start exactly once for every record whose
\* last_run is true in the store when the scan begins and for no other
\* record, whatever the outcome of each call.
C17_AutoStartExactlyDesired ==
    [][(last'.op \in {"restart", "restart_all"} /\ last'.res = "ok")
       => /\ {last'.paths[i].tid : i \in 1..Len(last'.paths)}
               = {tid \in DOMAIN load_ownership(ownership) : ownership[tid].last_run}
          /\ \A i, j \in 1..Len(last'.paths) :
                last'.paths[i].tid = last'.paths[j].tid => i = j]_vars

\* an auto-start whose first call failed and whose second call started its target
C17_Witness ==
    /\ last.op \in {"restart", "restart_all"}
    /\ Len(last.paths) = 2
    /\ last.paths[1].res # "started"
    /\ last.paths[2].res = "started"

\* C14: with one writer, whatever the readers do and whenever the service is
\* restarted, the store's file changes only in the rename that ends a
\* mutation, from the complete map before it to the complete map after it;
\* it is never cut short, and a reader loads exactly the map the file holds.
C14_AtomicReplace ==
    [][/\ ownership' # Garbled
       /\ \/ ownership' = ownership
          \/ writer["bot"].pc = "written" /\ ownership' = writer["bot"].data
       /\ (last' # last /\ last'.op = "read") => last'.paths.data = ownership]_vars

\* the service was restarted while the temporary file was open and empty,
\* and the store's file still holds a record
C14_Witness ==
    /\ last.op = "restart"
    /\ tmp = Garbled
    /\ ownership # <<>>

\* C15: the load-modify-replace windows of the two threads never overlap,
\* and once both threads are outside _write_json every target whose last
\* completed operation is a Stop has last_run false in the store.
C15_WritersSerialized ==
    /\ ~(writer["bot"].pc # "idle" /\ writer["flask"].pc # "idle")
    /\ (writer["bot"].pc = "idle" /\ writer["flask"].pc = "idle")
       => \A tid \in DOMAIN history \cap DOMAIN load_ownership(ownership) :
             history[tid] = "stop" => ~ownership[tid].last_run

\* C18: an auto-start never calls Start for a target whose last completed
\* operation is a Stop and for which no operation is under way.
C18_StoppedStaysStopped ==
    [][(last'.op \in {"restart", "restart_all"} /\ last'.res = "ok" /\ last' # last)
       => \A i \in 1..Len(last'.paths) :
             (/\ last'.paths[i].tid \in DOMAIN history
              /\ \A c \in Threads : writer[c].tid # last'.paths[i].tid)
             => history[last'.paths[i].tid] # "stop"]_vars

\* C16: a read of a store whose file does not parse or cannot be read loads
\* the empty map and finds no owner, key, last_run or entry for the target.
C16_CorruptStoreIsEmpty ==
    (last.op = "read" /\ ownership = Garbled)
    => /\ last.paths.data = <<>>
       /\ last.paths.owner = <<>>
       /\ last.paths.key = NoKey
       /\ last.paths.last_run = <<>>
       /\ last.paths.entry = <<>>

\* a read of the damaged store, whose target had been started before
C16_Witness ==
    /\ last.op = "read"
    /\ ownership = Garbled
    /\ last.tid \in DOMAIN running_processes

\* the target is to run and does not
Down(tid) ==
    /\ tid \in DOMAIN load_ownership(ownership)
    /\ ownership[tid].last_run
    /\ ~is_running(running_processes, procs, tid)

\* C19: a target that is to run and does not, while the clock has yet to
\* advance, is eventually started again or is no longer to run.
C19_AutoHeal == \A tid \in StoreTids : (Down(tid) /\ now < MaxTime) ~> ~Down(tid)

\* C20: when time passes while a target that is to run is down and no alert
\* for it has been sent, an alert is sent.
C20_DownAlerts ==
    [][(now' # now /\ \E tid \in StoreTids : Down(tid)) => last'.op = "alert"]_vars

\* the extension of a path: what follows the last "." of its last component
ExtOf(path) ==
    LET dots == {i \in 1..Len(path) : path[i] = "."}
        d == CHOOSE i \in dots : \A j \in dots : j <= i
    IN  IF dots = {} \/ Has(SubSeq(path, d + 1, Len(path)), "/") THEN <<>>
        ELSE SubSeq(path, d + 1, Len(path))

\* the command of a path by its extension: js -> node, sh -> bash, else python -u
CmdByExt(path) ==
    IF Lower(ExtOf(path)) = <<"js">> THEN <<<<"node">>, path>>
    ELSE IF Lower(ExtOf(path)) = <<"sh">> THEN <<<<"bash">>, path>>
    ELSE <<<<"python">>, <<"-u">>, path>>

\* C21: in a work_dir whose manifest declares a start script, the answer is
\* the manifest's command with no chosen path exactly when the explicit path
\* is absent or ends in .js; any other explicit path wins, with the
\* interpreter of its extension.
C21_ManifestOrExplicit ==
    (last.op = "detect" /\ PkgHasStart(fs, DetectDir))
    => IF last.name = None \/ EndsWith(last.name, <<".", "js">>)
       THEN last.paths = [cmd |-> <<<<"npm">>, <<"start">>>>, chosen |-> None]
       ELSE last.paths = [cmd |-> CmdByExt(last.name), chosen |-> last.name]

\* the conventional entry files, in the order of the probe
Conventional ==
    << <<"main", ".", "py">>, <<"app", ".", "py">>, <<"server", ".", "py">>,
       <<"bot", ".", "py">>, <<"index", ".", "js">>, <<"server", ".", "js">>,
       <<"start", ".", "sh">> >>

\* C22: with no explicit path and no manifest start script, the answer is the
\* first conventional entry file that exists, with the interpreter of its
\* extension; only when none exists is it what the walk finds.
C22_FirstCandidateWins ==
    (last.op = "detect" /\ last.name = None /\ ~PkgHasStart(fs, DetectDir))
    => LET here == {i \in 1..Len(Conventional) :
                        Exists(fs, PathJoin(DetectDir, Conventional[i]))}
           walked == <<"a", ".", "py">>
       IN  IF here # {}
           THEN \E i \in here :
                    /\ \A j \in here : i <= j
                    /\ last.paths = [cmd |-> CmdByExt(Conventional[i]),
                                     chosen |-> Conventional[i]]
           ELSE IF Exists(fs, PathJoin(DetectDir, walked))
           THEN last.paths = [cmd |-> CmdByExt(walked), chosen |-> walked]
           ELSE last.paths = [cmd |-> NoCmd, chosen |-> None]

\* neither main.py nor app.py exists, server.py, start.sh and the walk's file
\* do, and the manifest has no start script: server.py is chosen
C22_Witness ==
    /\ last.op = "detect"
    /\ last.name = None
    /\ Exists(fs, PathJoin(DetectDir, <<"package", ".", "json">>))
    /\ ~PkgHasStart(fs, DetectDir)
    /\ ~Exists(fs, PathJoin(DetectDir, <<"main", ".", "py">>))
    /\ ~Exists(fs, PathJoin(DetectDir, <<"app", ".", "py">>))
    /\ Exists(fs, PathJoin(DetectDir, <<"server", ".", "py">>))
    /\ Exists(fs, PathJoin(DetectDir, <<"start", ".", "sh">>))
    /\ Exists(fs, PathJoin(DetectDir, <<"a", ".", "py">>))
    /\ last.paths.chosen = <<"server", ".", "py">>

\* line i of the env file assigns: it is not blank, is no comment, has a "="
Assigns(lines, i) ==
    /\ Strip(lines[i]) # <<>>
    /\ Head(Strip(lines[i])) # "#"
    /\ Has(lines[i], "=")

\* the name and the value of an assigning line, blanks around them dropped
NameOf(line) == Strip(SubSeq(line, 1, Find(line, "=") - 1))

ValueOf(line) == Strip(SubSeq(line, Find(line, "=") + 1, Len(line)))

\* C23: the environment built holds, for a name the env file assigns, the
\* value of the last line that assigns it, whatever the service's own
\* environment holds for it; any other name keeps its inherited value, and
\* blank lines, comments and lines without "=" change nothing.  (Values
\* written with quote characters are C24's.)
C23_FileOverlaysEnviron ==
    last.op = "build_env"
    => LET lines == Split(EnvText, "\n")
       IN  /\ DOMAIN last.paths \subseteq {<<"a">>, <<"b">>, <<"p">>}
           /\ \A k \in {<<"a">>, <<"b">>, <<"p">>} :
                LET js == {i \in 1..Len(lines) : Assigns(lines, i) /\ NameOf(lines[i]) = k}
                    m == CHOOSE i \in js : \A j \in js : j <= i
                IN  IF js # {}
                    THEN (~Has(ValueOf(lines[m]), "\"") /\ ~Has(ValueOf(lines[m]), "'"))
                         => (k \in DOMAIN last.paths /\ last.paths[k] = ValueOf(lines[m]))
                    ELSE IF k \in DOMAIN Environ
                    THEN k \in DOMAIN last.paths /\ last.paths[k] = Environ[k]
                    ELSE k \notin DOMAIN last.paths

\* two lines assign a, which the service's environment defines too, and a
\* line without "=" follows: a has the value of the second line
C23_Witness ==
    /\ last.op = "build_env"
    /\ EnvText = <<"a", "=", "x", "\n", "a", "=", "m", "\n", "a">>
    /\ last.paths[<<"a">>] = <<"m">>
    /\ last.paths[<<"p">>] = <<"h">>

\* C24: of a value, at most one leading and one trailing quote character
\* are removed.
C24_OneQuoteLayer ==
    (last.op = "build_env" /\ StartsWith(EnvText, <<"a", "=">>) /\ ~Has(EnvText, "\n"))
    => LET v == SubSeq(EnvText, 3, Len(EnvText))
       IN  \E i, j \in {0, 1} :
              /\ i + j <= Len(v)
              /\ i = 1 => v[1] \in {"\"", "'"}
              /\ j = 1 => v[Len(v)] \in {"\"", "'"}
              /\ last.paths[<<"a">>] = SubSeq(v, 1 + i, Len(v) - j)

\* C25: an accepted env set(k, v) leaves the map that env get answers as it
\* was but for k, which has the value v; an accepted env delete(k) leaves it
\* as it was but without k; and the file then holds the map's lines, sorted
\* by name.
C25_EnvFlatMap ==
    [][(last' # last /\ last'.res = "ok" /\ last'.op \in {"env_save", "env_delete"})
       => /\ last'.op = "env_save" => EnvGet(fs') = Upsert(EnvGet(fs), last'.name, last'.paths)
          /\ last'.op = "env_delete" => EnvGet(fs') = Remove(EnvGet(fs), last'.name)
          /\ fs' # fs => fs'[AbsPath(EnvPathOf(TFile))].data
                            = JoinWith(EnvLines(EnvGet(fs')), "\n")]_vars

\* C26: a log file is append-only: whatever step is taken, a log file that
\* exists still exists after it and its content before the step is a prefix
\* of its content after it.
C26_LogAppendOnly ==
    [][\A q \in DOMAIN fs :
          (fs[q].kind = "file" /\ EndsWith(q, <<".", "log">>))
          => /\ q \in DOMAIN fs'
             /\ Len(fs[q].data) <= Len(fs'[q].data)
             /\ SubSeq(fs'[q].data, 1, Len(fs[q].data)) = fs[q].data]_vars

\* C27: after a Start that launched no process, no registry entry of the
\* target is reported alive.
C27_FailedStartStopped ==
    [][(last'.op = "start" /\ last'.res \in {"no_entry", "spawn_failed"})
       => ~is_running(running_processes', procs', last'.tid)]_vars

\* C28: a flow that called Start reports a launch, or a successful save,
\* only if the Start launched a process.
C28_FailureReported ==
    [][(\/ last'.op = "start" /\ last'.paths = <<"Launched!">>
        \/ last'.op = "save_code" /\ last'.res = "success")
       => Cardinality(DOMAIN procs') > Cardinality(DOMAIN procs)]_vars

\* the entry a Start of tid reads: the file just selected in the clone
\* conversation, or the entry of the record
EntryRead(tid) ==
    IF \E uid \in DOMAIN user_data :
            user_data[uid].git_conv = "WAIT_GIT_EXTRAS" /\ user_data'[uid].git_conv = "END"
    THEN SubSeq(tid, Find(tid, "|") + 1, Len(tid))
    ELSE ownership[tid].entry

\* C29: after a Start that found a command, the record of a repository
\* target has as entry the path the detector chose (None when the manifest's
\* command is run), and the record of any other target has the entry it had.
C29_EntryPersisted ==
    [][(/\ last'.op = "start"
        /\ last'.res \in {"started", "spawn_failed", "raised"}
        /\ last'.tid \in DOMAIN load_ownership(ownership'))
       => IF is_repo_id(last'.tid)
          THEN ownership'[last'.tid].entry
                  = resolve_run_command(fs, resolve_paths(last'.tid).work_dir,
                                        EntryRead(last'.tid)).chosen
          ELSE /\ last'.tid \in DOMAIN load_ownership(ownership)
               /\ ownership'[last'.tid].entry = ownership[last'.tid].entry]_vars

\* index.js was selected in a repository whose manifest has a start script:
\* the Start ran the manifest's command and the record's entry is None
C29_Witness ==
    /\ last.op = "start"
    /\ last.res = "started"
    /\ last.tid = <<"r", "_", "u", "2", "|", "index", ".", "js">>
    /\ ownership[last.tid].entry = None

\* C30: once a read path has answered that a target does not run, having
\* polled its handle if it has an entry, the registry holds no entry of the
\* target.
C30_ExitedEntryRemoved ==
    (\/ last.op = "status" /\ last.res = "stopped"
     \/ last.op = "app_stats" /\ last.res = "not_running")
    => last.tid \notin DOMAIN running_processes


\* the registry holds an entry of tid and the entry's process has not exited
TrackedAlive(tid) ==
    /\ tid \in DOMAIN running_processes
    /\ procs[running_processes[tid].process].st \in {"alive", "signalled"}

\* C31: every read path reports a target as running exactly when the
\* registry holds an entry of it whose handle polls as alive: the status
\* query, the per-app stats and the manage view in their answer, the listing
\* in the labels of the targets it shows, the server-wide count in the
\* targets it counts.  An entry whose process has exited is answered like no
\* entry.
C31_ReadPathsAgree ==
    /\ (last.op = "status" /\ last.res \in {"running", "stopped"})
          => (last.res = "running" <=> TrackedAlive(last.tid))
    /\ (last.op = "app_stats" /\ last.res \in {"running", "not_running"})
          => (last.res = "running" <=> TrackedAlive(last.tid))
    /\ last.op = "manage" => (last.res = "running" <=> TrackedAlive(last.tid))
    /\ last.op = "list"
          => \A tid \in DOMAIN ownership :
                (last.uid = ADMIN_ID \/ last.uid = ownership[tid].owner)
                   => (tid \in last.touched <=> TrackedAlive(tid))
    /\ last.op = "stats"
          => last.touched = {tid \in DOMAIN running_processes : TrackedAlive(tid)}

\* a read path answers "not running" for a target whose entry is still in
\* the registry, its process exited
C31_Witness ==
    /\ last.op \in {"status", "app_stats", "manage"}
    /\ last.res \in {"stopped", "not_running"}
    /\ last.tid \in DOMAIN running_processes
    /\ ~TrackedAlive(last.tid)

\* rel lies in a .git or node_modules directory, at any depth
InSkippedTree(rel) ==
    \/ StartsWith(rel, <<".", "git", "/">>)
    \/ StartsWith(rel, <<"node_modules", "/">>)
    \/ Contains(rel, <<"/", ".", "git", "/">>)
    \/ Contains(rel, <<"/", "node_modules", "/">>)

\* the files of work_dir the walk may return
Eligible(f, work_dir) ==
    {rel \in RelFiles(f, work_dir) :
        /\ ~InSkippedTree(rel)
        /\ ~EndsWith(rel, <<".", "pyc">>)
        /\ \/ EndsWith(rel, <<".", "py">>)
           \/ EndsWith(rel, <<".", "js">>)
           \/ EndsWith(rel, <<".", "sh">>)}

\* C32: when no manifest rule, explicit path or conventional candidate
\* applies, the answer is a file with a runnable extension that lies in no
\* .git or node_modules subtree at any depth and is no .pyc file, with the
\* interpreter of its extension, and it is "no runnable entry" when work_dir
\* holds no such file.
C32_FallbackWalk ==
    (/\ last.op = "detect"
     /\ last.name = None
     /\ ~PkgHasStart(fs, DetectDir)
     /\ \A i \in 1..Len(Conventional) : ~Exists(fs, PathJoin(DetectDir, Conventional[i])))
    => IF Eligible(fs, DetectDir) = {}
       THEN last.paths = [cmd |-> NoCmd, chosen |-> None]
       ELSE /\ last.paths.chosen \in Eligible(fs, DetectDir)
            /\ last.paths.cmd = CmdByExt(last.paths.chosen)

\* C33: between operations, a target that has an ownership record and a
\* registry entry whose process is alive has last_run = true in that record.
C33_LiveIsDesired ==
    \A tid \in DOMAIN load_ownership(ownership) :
        TrackedAlive(tid) => load_ownership(ownership)[tid].last_run

\* C34: between operations, every registry entry belongs to a target that has
\* an ownership record.
C34_EntryHasRecord ==
    ctx = Idle => DOMAIN running_processes \subseteq DOMAIN load_ownership(ownership)

\* the processes of tid that have not exited
LiveProcs(tid) == {p \in DOMAIN procs : procs[p].tid = tid /\ procs[p].st # "exited"}

\* C35: once the service has started again and its auto-start has run, no
\* target has more than one live process: a process of the previous
\* instance is not alive next to the one spawned now.
C35_OneLiveAfterRestart ==
    last.op = "restart" => \A tid \in DOMAIN ownership : Cardinality(LiveProcs(tid)) <= 1

\* the workspace files of target t in f: the tree of a repository, and the
\* script, env file and requirements file of any other target
WorkspaceOf(f, t) ==
    LET paths == resolve_paths(t)
        own == IF is_repo_id(t) THEN Below(f, paths.work_dir)
               ELSE {q \in DOMAIN f : q \in {AbsPath(paths.full_script_path),
                                             AbsPath(paths.env_path),
                                             AbsPath(paths.req_path)}}
    IN  [q \in own |-> f[q]]

\* C36: a Delete of tid leaves tid without record and without registry
\* entry, and leaves the record, the registry entry and the workspace files
\* of every other target as they were.
C36_DeleteFrame ==
    [][last'.op = "delete"
       => /\ last'.tid \notin DOMAIN ownership'
          /\ last'.tid \notin DOMAIN running_processes'
          /\ \A t \in DOMAIN ownership \ {last'.tid} :
                /\ t \in DOMAIN ownership'
                /\ ownership'[t] = ownership[t]
                /\ WorkspaceOf(fs', t) = WorkspaceOf(fs, t)
          /\ \A t \in DOMAIN running_processes \ {last'.tid} :
                /\ t \in DOMAIN running_processes'
                /\ running_processes'[t] = running_processes[t]]_vars

\* C37: a store mutation made while the store's file does not parse destroys
\* no records silently: an upsert does not replace the file with a map that
\* holds the upserted record alone, and a change of last_run and a delete
\* leave the file as it is.
C37_CorruptStoreKept ==
    [][ownership = Garbled
       => /\ (last'.op = "upload" /\ last'.res = "saved")
                => DOMAIN load_ownership(ownership') # {last'.tid}
          /\ last'.op \in {"start", "stop", "delete"} => ownership' = ownership]_vars

\* C38: two distinct identifiers never have the same log file path.
C38_LogPathInjective ==
    (last.op = "log_path" /\ last.tid # last.name) => last.paths[1] # last.paths[2]
====
